---------------------------- MODULE Spec2Model ----------------------------
(***************************************************************************)
(* A model of the stellar_diary backend: the in-memory store (MemStorage), *)
(* the celestial-object filter, the HTTP handlers of the Flask apps and    *)
(* the APOD proxy endpoint.                                                *)
(*                                                                         *)
(* Encoding of Python values.  An Optional value is a sequence of length   *)
(* at most one: None is <<>> and a present value v is <<v>>.  A JSON/dict  *)
(* payload is a TLA+ record whose DOMAIN is the set of keys present and    *)
(* whose values are Optional values.  A Python dict keyed by id is the     *)
(* sequence of its values in insertion order (each value carries its id),  *)
(* which is the order dict.values() iterates in.                           *)
(***************************************************************************)
EXTENDS Integers, Sequences, FiniteSets, TLC

VARIABLES
    users,                    \* MemStorage.users
    celestial_objects,        \* MemStorage.celestial_objects
    observations,             \* MemStorage.observations
    monthly_guides,           \* MemStorage.monthly_guides
    telescope_tips,           \* MemStorage.telescope_tips
    user_current_id,          \* MemStorage.user_current_id
    object_current_id,        \* MemStorage.object_current_id
    observation_current_id,   \* MemStorage.observation_current_id
    guide_current_id,         \* MemStorage.guide_current_id
    tip_current_id,           \* MemStorage.tip_current_id
    issued,                   \* history: per entity type, the ids create_* returned, in order
    request,                  \* history: the last call made (operation and arguments)
    upstream,                 \* history: what the NASA API did during the last call
    response,                 \* the answer to the last call
    effects                   \* the outbound HTTP requests and the time.sleep calls
                              \* of the last call, in the order they were made

store == <<users, celestial_objects, observations, monthly_guides, telescope_tips,
           user_current_id, object_current_id, observation_current_id,
           guide_current_id, tip_current_id>>

vars == <<users, celestial_objects, observations, monthly_guides, telescope_tips,
          user_current_id, object_current_id, observation_current_id,
          guide_current_id, tip_current_id, issued, request, upstream, response,
          effects>>

---------------------------------------------------------------------------
(* Bounds of the model. *)

\* Direct callers of the store create at most MaxId records of each type.
MaxId == 2
\* The HTTP surface creates at most MaxObjects celestial objects and lets the
\* observation counter grow up to MaxObservations.
MaxObjects == 1
MaxObservations == 2
\* datetime.now() returns a value in 1..MaxTime.
MaxTime == 1

---------------------------------------------------------------------------
(* Python values. *)

None == <<>>
Some(v) == <<v>>

\* dict.get(key): the value, or None when the key is absent.
Get(data, key) == IF key \in DOMAIN data THEN data[key] ELSE None

\* dict.get(key, default)
GetDefault(data, key, default) == IF key \in DOMAIN data THEN data[key] ELSE default

\* Truthiness of an Optional[str]: None and the empty string are falsy.
Truthy(v) == v # None /\ v # Some("")

\* self.<dict>.get(id) on a dict keyed by id: Some(record) or None.
\* The key is an Optional[int]: looking up None finds nothing.
DictGet(d, key) ==
    LET hits == {i \in DOMAIN d : Some(d[i].id) = key}
    IN  IF hits = {} THEN None ELSE Some(d[CHOOSE i \in hits : TRUE])

\* id in self.<dict>
DictHas(d, id) == \E i \in DOMAIN d : d[i].id = id

\* self.<dict>[id] = rec: a new key goes last, an old key keeps its place.
DictSet(d, id, rec) ==
    IF DictHas(d, id)
    THEN [i \in DOMAIN d |-> IF d[i].id = id THEN rec ELSE d[i]]
    ELSE Append(d, rec)

\* del self.<dict>[id]
DictDel(d, id) == SelectSeq(d, LAMBDA r : r.id # id)

\* list(self.<dict>.values())
Values(d) == d

\* datetime.now()
Times == 1..MaxTime

---------------------------------------------------------------------------
(* data/models.py: the records of the store and their JSON projections. *)

celestial_object_types ==
    {"planet", "galaxy", "nebula", "star_cluster", "double_star", "moon", "other"}

\* User(id, username, email, password_hash)
User(id, user_data) ==
    [id |-> id,
     username |-> Get(user_data, "username"),
     email |-> Get(user_data, "email"),
     password_hash |-> Get(user_data, "passwordHash")]

\* CelestialObject(...): camelCase keys of the payload become snake_case fields.
CelestialObject(id, object_data) ==
    [id |-> id,
     name |-> Get(object_data, "name"),
     type |-> Get(object_data, "type"),
     description |-> Get(object_data, "description"),
     coordinates |-> Get(object_data, "coordinates"),
     month |-> Get(object_data, "month"),
     best_viewing_time |-> Get(object_data, "bestViewingTime"),
     image_url |-> Get(object_data, "imageUrl"),
     visibility_rating |-> Get(object_data, "visibilityRating"),
     information |-> Get(object_data, "information"),
     constellation |-> Get(object_data, "constellation"),
     magnitude |-> Get(object_data, "magnitude"),
     hemisphere |-> Get(object_data, "hemisphere"),
     recommended_eyepiece |-> Get(object_data, "recommendedEyepiece")]

\* CelestialObject.to_dict
CelestialObjectToDict(obj) ==
    [id |-> obj.id,
     name |-> obj.name,
     type |-> obj.type,
     description |-> obj.description,
     coordinates |-> obj.coordinates,
     month |-> obj.month,
     bestViewingTime |-> obj.best_viewing_time,
     imageUrl |-> obj.image_url,
     visibilityRating |-> obj.visibility_rating,
     information |-> obj.information,
     constellation |-> obj.constellation,
     magnitude |-> obj.magnitude,
     hemisphere |-> obj.hemisphere,
     recommendedEyepiece |-> obj.recommended_eyepiece]

\* Observation(...): is_observed defaults to False, date_added is the creation time.
Observation(id, observation_data, date_added) ==
    [id |-> id,
     user_id |-> Get(observation_data, "userId"),
     object_id |-> Get(observation_data, "objectId"),
     date_added |-> date_added,
     is_observed |-> GetDefault(observation_data, "isObserved", Some(FALSE)),
     observation_notes |-> Get(observation_data, "observationNotes"),
     planned_date |-> Get(observation_data, "plannedDate")]

\* datetime.isoformat(): a string that determines the time it was made from.
IsoFormat(t) == [iso |-> t]

\* Observation.to_dict
ObservationToDict(obs) ==
    [id |-> obs.id,
     userId |-> obs.user_id,
     objectId |-> obs.object_id,
     dateAdded |-> IsoFormat(obs.date_added),
     isObserved |-> obs.is_observed,
     observationNotes |-> obs.observation_notes,
     plannedDate |-> obs.planned_date]

\* MonthlyGuide(...): featured_objects defaults to the empty list.
MonthlyGuide(id, guide_data) ==
    [id |-> id,
     month |-> Get(guide_data, "month"),
     year |-> Get(guide_data, "year"),
     headline |-> Get(guide_data, "headline"),
     content |-> Get(guide_data, "content"),
     hemisphere |-> Get(guide_data, "hemisphere"),
     featured_objects |-> GetDefault(guide_data, "featuredObjects", <<>>)]

\* TelescopeTip(...)
TelescopeTip(id, tip_data) ==
    [id |-> id,
     title |-> Get(tip_data, "title"),
     content |-> Get(tip_data, "content"),
     category |-> Get(tip_data, "category"),
     image_url |-> Get(tip_data, "imageUrl")]

---------------------------------------------------------------------------
(* data/storage.py: MemStorage.  Each operator below is the effect of one  *)
(* method on the store; the caller adds the request and the response.      *)

\* self.user_current_id += 1; id = self.user_current_id
NewUserId == user_current_id + 1

\* self.object_current_id += 1; id = self.object_current_id
NewObjectId == object_current_id + 1

\* An id computed from the number of stored observations instead of the counter.
NewObservationIdFromSize == Len(observations) + 1

\* self.observation_current_id += 1; id = self.observation_current_id
NewObservationId == observation_current_id + 1

\* self.guide_current_id += 1; id = self.guide_current_id
NewGuideId == guide_current_id + 1

\* self.tip_current_id += 1; id = self.tip_current_id
NewTipId == tip_current_id + 1

Issue(type, id) == issued' = [issued EXCEPT ![type] = Append(@, id)]

create_user(user_data) ==
    /\ user_current_id' = user_current_id + 1
    /\ users' = DictSet(users, NewUserId, User(NewUserId, user_data))
    /\ Issue("user", NewUserId)
    /\ UNCHANGED <<celestial_objects, observations, monthly_guides, telescope_tips,
                   object_current_id, observation_current_id, guide_current_id,
                   tip_current_id>>

get_celestial_object(id) == DictGet(celestial_objects, id)

get_all_celestial_objects == Values(celestial_objects)

create_celestial_object(object_data) ==
    /\ object_current_id' = object_current_id + 1
    /\ celestial_objects' =
           DictSet(celestial_objects, NewObjectId, CelestialObject(NewObjectId, object_data))
    /\ Issue("object", NewObjectId)
    /\ UNCHANGED <<users, observations, monthly_guides, telescope_tips,
                   user_current_id, observation_current_id, guide_current_id,
                   tip_current_id>>

\* A lookup that falls back to the observation stored last.
get_observation_or_last(id) ==
    IF DictGet(observations, id) = None /\ observations # <<>>
    THEN Some(observations[Len(observations)])
    ELSE DictGet(observations, id)

get_observation(id) == DictGet(observations, id)

get_user_observations(user_id) ==
    SelectSeq(Values(observations), LAMBDA obs : obs.user_id = user_id)

create_observation(observation_data, now) ==
    /\ observation_current_id' = observation_current_id + 1
    /\ observations' =
           DictSet(observations, NewObservationId,
                   Observation(NewObservationId, observation_data, now))
    /\ Issue("observation", NewObservationId)
    /\ UNCHANGED <<users, celestial_objects, monthly_guides, telescope_tips,
                   user_current_id, object_current_id, guide_current_id,
                   tip_current_id>>

\* An update that resets is_observed to its default when the key is not supplied.
UpdatedObservationResetting(observation, update_data) ==
    [observation EXCEPT
        !.is_observed = GetDefault(update_data, "isObserved", Some(FALSE)),
        !.observation_notes =
            IF "observationNotes" \in DOMAIN update_data
            THEN update_data["observationNotes"] ELSE @,
        !.planned_date =
            IF "plannedDate" \in DOMAIN update_data THEN update_data["plannedDate"] ELSE @]

\* The record update_observation leaves in the store: only keys present in
\* update_data are assigned.
UpdatedObservation(observation, update_data) ==
    [observation EXCEPT
        !.is_observed =
            IF "isObserved" \in DOMAIN update_data THEN update_data["isObserved"] ELSE @,
        !.observation_notes =
            IF "observationNotes" \in DOMAIN update_data
            THEN update_data["observationNotes"] ELSE @,
        !.planned_date =
            IF "plannedDate" \in DOMAIN update_data THEN update_data["plannedDate"] ELSE @]

\* The value update_observation returns: None for an unknown id.
update_observation_result(id, update_data) ==
    IF get_observation(Some(id)) = None
    THEN None
    ELSE Some(UpdatedObservation(get_observation(Some(id))[1], update_data))

update_observation(id, update_data) ==
    /\ observations' =
           IF get_observation(Some(id)) = None
           THEN observations
           ELSE DictSet(observations, id,
                        UpdatedObservation(get_observation(Some(id))[1], update_data))
    /\ UNCHANGED <<users, celestial_objects, monthly_guides, telescope_tips,
                   user_current_id, object_current_id, observation_current_id,
                   guide_current_id, tip_current_id, issued>>

\* The value delete_observation returns.
delete_observation_result(id) == DictHas(observations, id)

\* A delete that hands the id back when it was the last one assigned.
delete_observation_releasing_id(id) ==
    /\ observations' = IF DictHas(observations, id) THEN DictDel(observations, id)
                                                    ELSE observations
    /\ observation_current_id' =
           IF DictHas(observations, id) /\ id = observation_current_id
           THEN observation_current_id - 1 ELSE observation_current_id
    /\ UNCHANGED <<users, celestial_objects, monthly_guides, telescope_tips,
                   user_current_id, object_current_id,
                   guide_current_id, tip_current_id, issued>>

delete_observation(id) ==
    /\ observations' = IF DictHas(observations, id) THEN DictDel(observations, id)
                                                    ELSE observations
    /\ UNCHANGED <<users, celestial_objects, monthly_guides, telescope_tips,
                   user_current_id, object_current_id, observation_current_id,
                   guide_current_id, tip_current_id, issued>>

get_all_monthly_guides == Values(monthly_guides)

create_monthly_guide(guide_data) ==
    /\ guide_current_id' = guide_current_id + 1
    /\ monthly_guides' =
           DictSet(monthly_guides, NewGuideId, MonthlyGuide(NewGuideId, guide_data))
    /\ Issue("guide", NewGuideId)
    /\ UNCHANGED <<users, celestial_objects, observations, telescope_tips,
                   user_current_id, object_current_id, observation_current_id,
                   tip_current_id>>

create_telescope_tip(tip_data) ==
    /\ tip_current_id' = tip_current_id + 1
    /\ telescope_tips' =
           DictSet(telescope_tips, NewTipId, TelescopeTip(NewTipId, tip_data))
    /\ Issue("tip", NewTipId)
    /\ UNCHANGED <<users, celestial_objects, observations, monthly_guides,
                   user_current_id, object_current_id, observation_current_id,
                   guide_current_id>>

---------------------------------------------------------------------------
(* Initial state: MemStorage.__init__, nothing called yet. *)

NoRequest == [op |-> "none"]
NoUpstream == [kind |-> "none"]
NoResponse == [status |-> 0, message |-> "", body |-> <<>>]

InitStore ==
    /\ users = <<>>
    /\ celestial_objects = <<>>
    /\ observations = <<>>
    /\ monthly_guides = <<>>
    /\ telescope_tips = <<>>
    /\ user_current_id = 0
    /\ object_current_id = 0
    /\ observation_current_id = 0
    /\ guide_current_id = 0
    /\ tip_current_id = 0
    /\ issued = [user |-> <<>>, object |-> <<>>, observation |-> <<>>,
                 guide |-> <<>>, tip |-> <<>>]

Init ==
    /\ InitStore
    /\ request = NoRequest
    /\ upstream = NoUpstream
    /\ response = NoResponse
    /\ effects = <<>>

---------------------------------------------------------------------------
(* services/celestial_objects.py: the filter service. *)

\* [f(x) for x in seq]
MapSeq(f(_), seq) == [i \in DOMAIN seq |-> f(seq[i])]

\* if object_type: keep the objects whose type equals it.
FilterByType(objs, object_type) ==
    IF Truthy(object_type)
    THEN SelectSeq(objs, LAMBDA obj : obj.type = object_type)
    ELSE objs

\* if month: keep the objects whose month equals it.
FilterByMonth(objs, month) ==
    IF Truthy(month)
    THEN SelectSeq(objs, LAMBDA obj : obj.month = month)
    ELSE objs

\* if hemisphere: keep the objects whose hemisphere equals it or is 'Both'.
FilterByHemisphere(objs, hemisphere) ==
    IF Truthy(hemisphere)
    THEN SelectSeq(objs, LAMBDA obj : obj.hemisphere = hemisphere
                                      \/ obj.hemisphere = Some("Both"))
    ELSE objs

\* A filter whose month step starts again from the full list.
filter_celestial_objects_restarting(object_type, month, hemisphere) ==
    LET objects == get_all_celestial_objects
        by_month == IF Truthy(month) THEN FilterByMonth(objects, month)
                                     ELSE FilterByType(objects, object_type)
        filtered_objects == FilterByHemisphere(by_month, hemisphere)
    IN  MapSeq(CelestialObjectToDict, filtered_objects)

filter_celestial_objects(object_type, month, hemisphere) ==
    LET objects == get_all_celestial_objects
        by_type == FilterByType(objects, object_type)
        by_month == FilterByMonth(by_type, month)
        filtered_objects == FilterByHemisphere(by_month, hemisphere)
    IN  MapSeq(CelestialObjectToDict, filtered_objects)

---------------------------------------------------------------------------
(* app.py: the HTTP handlers on the store.  Each handler is one atomic     *)
(* step from the request to the response (Flask handles a request in one   *)
(* thread); an exception raised inside a handler is caught by its          *)
(* `except Exception` clause and answered with status 500.                 *)

\* jsonify(...), status
Respond(status, message, body) == [status |-> status, message |-> message, body |-> body]

\* The fixed user id of the demo.
user_id == 1

\* GET /api/celestial-objects
api_get_celestial_objects(object_type, month, hemisphere) ==
    /\ request' = [op |-> "GET /api/celestial-objects", type |-> object_type,
                   month |-> month, hemisphere |-> hemisphere]
    /\ response' =
           IF Truthy(object_type) \/ Truthy(month) \/ Truthy(hemisphere)
           THEN Respond(200, "", filter_celestial_objects(object_type, month, hemisphere))
           ELSE Respond(200, "", MapSeq(CelestialObjectToDict, get_all_celestial_objects))
    /\ UNCHANGED <<store, issued, upstream, effects>>

\* GET /api/celestial-objects/<int:id>
api_get_celestial_object(id) ==
    /\ request' = [op |-> "GET /api/celestial-objects/id", id |-> id]
    /\ response' =
           IF get_celestial_object(Some(id)) = None
           THEN Respond(404, "Celestial object not found", <<>>)
           ELSE Respond(200, "", <<CelestialObjectToDict(get_celestial_object(Some(id))[1])>>)
    /\ UNCHANGED <<store, issued, upstream, effects>>

\* The defaults POST /api/celestial-objects sets for the keys the body lacks.
ObjectDefaults ==
    [visibilityRating |-> Some("Custom"),
     information |-> Some("Custom celestial object"),
     imageUrl |-> Some("https://images.unsplash.com/photo-1462331940025-496dfbfc7564?auto=format&fit=crop&w=800&h=500"),
     constellation |-> Some("Not specified"),
     magnitude |-> Some("Not specified"),
     recommendedEyepiece |-> Some("Not specified")]

\* The defaults set for the keys the body lacks or holds null for.
WithDefaultsForNull(data) ==
    [key \in DOMAIN data \cup DOMAIN ObjectDefaults |->
        IF key \in DOMAIN data /\ (key \notin DOMAIN ObjectDefaults \/ data[key] # None)
        THEN data[key] ELSE ObjectDefaults[key]]

\* if key not in data: data[key] = default
WithDefaults(data) ==
    [key \in DOMAIN data \cup DOMAIN ObjectDefaults |->
        IF key \in DOMAIN data THEN data[key] ELSE ObjectDefaults[key]]

\* POST /api/celestial-objects
api_create_celestial_object(data) ==
    /\ request' = [op |-> "POST /api/celestial-objects", data |-> data]
    /\ create_celestial_object(WithDefaults(data))
    /\ response' = Respond(201, "",
                       <<CelestialObjectToDict(CelestialObject(NewObjectId, WithDefaults(data)))>>)
    /\ UNCHANGED <<upstream, effects>>

\* GET /api/observations: the observations of user 1, each with its object.
api_get_observations ==
    LET celestial_object(obs) == get_celestial_object(obs.object_id)
        enhance(obs) ==
            [key \in DOMAIN ObservationToDict(obs) \cup {"celestialObject"} |->
                IF key # "celestialObject" THEN ObservationToDict(obs)[key]
                ELSE IF celestial_object(obs) = None THEN None
                ELSE Some(CelestialObjectToDict(celestial_object(obs)[1]))]
    IN  /\ request' = [op |-> "GET /api/observations"]
        /\ response' = Respond(200, "", MapSeq(enhance, get_user_observations(Some(user_id))))
        /\ UNCHANGED <<store, issued, upstream, effects>>

\* The userId of the body kept when the body has one.
WithUserIdIfAbsent(data) ==
    [key \in DOMAIN data \cup {"userId"} |->
        IF key \in DOMAIN data THEN data[key] ELSE Some(user_id)]

\* data['userId'] = user_id
WithUserId(data) ==
    [key \in DOMAIN data \cup {"userId"} |->
        IF key = "userId" THEN Some(user_id) ELSE data[key]]

\* POST /api/observations without the test that the celestial object exists.
api_create_observation_unchecked(data, now) ==
    /\ request' = [op |-> "POST /api/observations", data |-> data]
    /\ IF "objectId" \notin DOMAIN data
       THEN /\ response' = Respond(500, "Failed to create observation: 'objectId'", <<>>)
            /\ UNCHANGED <<store, issued>>
       ELSE /\ create_observation(WithUserId(data), now)
            /\ response' = Respond(201, "",
                   <<ObservationToDict(Observation(NewObservationId, WithUserId(data), now))>>)
    /\ UNCHANGED <<upstream, effects>>

\* POST /api/observations
api_create_observation(data, now) ==
    /\ request' = [op |-> "POST /api/observations", data |-> data]
    /\ IF "objectId" \notin DOMAIN data
       THEN \* data['objectId'] raises KeyError
            /\ response' = Respond(500, "Failed to create observation: 'objectId'", <<>>)
            /\ UNCHANGED <<store, issued>>
       ELSE IF get_celestial_object(data["objectId"]) = None
       THEN /\ response' = Respond(404, "Celestial object not found", <<>>)
            /\ UNCHANGED <<store, issued>>
       ELSE /\ create_observation(WithUserId(data), now)
            /\ response' = Respond(201, "",
                   <<ObservationToDict(Observation(NewObservationId, WithUserId(data), now))>>)
    /\ UNCHANGED <<upstream, effects>>

\* PATCH /api/observations/<int:id>.  python_server/app.py has the same handler
\* without the test of the updated observation (which never fails here).
api_update_observation(id, json) ==
    /\ request' = [op |-> "PATCH /api/observations/id", id |-> id, json |-> json]
    /\ IF get_observation(Some(id)) = None
       THEN /\ response' = Respond(404, "Observation not found", <<>>)
            /\ UNCHANGED <<store, issued>>
       ELSE IF get_observation(Some(id))[1].user_id # Some(user_id)
       THEN /\ response' = Respond(403, "Not authorized to update this observation", <<>>)
            /\ UNCHANGED <<store, issued>>
       ELSE /\ update_observation(id, json)
            /\ response' =
                   IF update_observation_result(id, json) = None
                   THEN Respond(500, "Failed to update observation", <<>>)
                   ELSE Respond(200, "",
                            <<ObservationToDict(update_observation_result(id, json)[1])>>)
    /\ UNCHANGED <<upstream, effects>>

\* DELETE /api/observations/<int:id> that deletes before it tests the owner.
api_delete_observation_early(id) ==
    /\ request' = [op |-> "DELETE /api/observations/id", id |-> id]
    /\ IF get_observation(Some(id)) = None
       THEN /\ response' = Respond(404, "Observation not found", <<>>)
            /\ UNCHANGED <<store, issued>>
       ELSE /\ delete_observation(id)
            /\ response' =
                   IF get_observation(Some(id))[1].user_id # Some(user_id)
                   THEN Respond(403, "Not authorized to delete this observation", <<>>)
                   ELSE Respond(204, "", <<>>)
    /\ UNCHANGED <<upstream, effects>>

\* DELETE /api/observations/<int:id> (the same code in both applications)
api_delete_observation(id) ==
    /\ request' = [op |-> "DELETE /api/observations/id", id |-> id]
    /\ IF get_observation(Some(id)) = None
       THEN /\ response' = Respond(404, "Observation not found", <<>>)
            /\ UNCHANGED <<store, issued>>
       ELSE IF get_observation(Some(id))[1].user_id # Some(user_id)
       THEN /\ response' = Respond(403, "Not authorized to delete this observation", <<>>)
            /\ UNCHANGED <<store, issued>>
       ELSE /\ delete_observation(id)
            /\ response' = Respond(204, "", <<>>)
    /\ UNCHANGED <<upstream, effects>>

---------------------------------------------------------------------------
(* services/nasa_api.py and the /api/apod handlers.  The upstream call is  *)
(* requests.get followed by raise_for_status and response.json(); what the *)
(* NASA API does is an input of the handler.                               *)

\* The two Flask applications of the repository.
Apps == {"server", "python_server"}

\* requests.exceptions: each class with all the classes it is an instance of.
Bases(class) ==
    CASE class = "HTTPError" -> {"HTTPError", "RequestException", "Exception"}
      [] class = "ConnectionError" -> {"ConnectionError", "RequestException", "Exception"}
      [] class = "SSLError" ->
             {"SSLError", "ConnectionError", "RequestException", "Exception"}
      [] class = "ProxyError" ->
             {"ProxyError", "ConnectionError", "RequestException", "Exception"}
      [] class = "ConnectTimeout" ->
             {"ConnectTimeout", "ConnectionError", "Timeout", "RequestException", "Exception"}
      [] class = "ReadTimeout" -> {"ReadTimeout", "Timeout", "RequestException", "Exception"}
      [] class = "TooManyRedirects" -> {"TooManyRedirects", "RequestException", "Exception"}
      [] class = "JSONDecodeError" ->
             {"JSONDecodeError", "RequestException", "ValueError", "Exception"}
      [] class = "KeyError" -> {"KeyError", "LookupError", "Exception"}
      [] class = "IndexError" -> {"IndexError", "LookupError", "Exception"}
      [] class = "ParserRejectedMarkup" -> {"ParserRejectedMarkup", "Exception"}

\* isinstance(e, class)
IsInstance(e, class) == class \in Bases(e.class)

\* Response.raise_for_status raises HTTPError for the statuses 400..599.
IsErrorStatus(status) == 400 <= status /\ status < 600

\* bool(response): requests.Response.__bool__ returns response.ok, which is
\* False exactly when raise_for_status would raise.
ResponseBool(status) == ~IsErrorStatus(status)

\* What the upstream call can do: answer with a status (and a body that is
\* JSON or not), or fail with an exception of requests.
UpstreamStatuses == {200, 400, 401, 403, 404, 418, 422, 429, 500, 502, 503, 504}
UpstreamFailures ==
    {"ConnectionError", "SSLError", "ProxyError", "ConnectTimeout", "ReadTimeout",
     "TooManyRedirects"}
UpstreamOutcomes ==
    {[kind |-> "response", status |-> st, json |-> TRUE] : st \in UpstreamStatuses}
    \cup {[kind |-> "response", status |-> 200, json |-> FALSE]}
    \cup {[kind |-> "exception", class |-> c] : c \in UpstreamFailures}

\* Without a timeout argument requests.get raises no Timeout exception.
IsTimeout(outcome) ==
    outcome.kind = "exception" /\ "Timeout" \in Bases(outcome.class)

\* fetch_apod: the APOD record returned, or the exception raised.  An
\* HTTPError carries the response it was raised for.
fetch_apod(date, outcome) ==
    IF outcome.kind = "exception"
    THEN [raised |-> TRUE, class |-> outcome.class, response |-> None]
    ELSE IF IsErrorStatus(outcome.status)
    THEN [raised |-> TRUE, class |-> "HTTPError", response |-> Some(outcome.status)]
    ELSE IF ~outcome.json
    THEN [raised |-> TRUE, class |-> "JSONDecodeError", response |-> None]
    ELSE [raised |-> FALSE, value |-> [date |-> date, media_type |-> "image"]]

\* status_code = e.response.status_code if hasattr(e, 'response') and e.response else 500
HTTPErrorStatusCode(e) ==
    IF e.response # None /\ ResponseBool(e.response[1]) THEN e.response[1] ELSE 500

\* The answer of the `except requests.exceptions.HTTPError` clause (the
\* messages that end with str(e) in the source are cut before it).
HTTPErrorAnswer(e) ==
    LET status_code == HTTPErrorStatusCode(e)
    IN  CASE status_code = 400 ->
                 Respond(400, "Invalid request parameters. Please check your date format (YYYY-MM-DD).", <<>>)
          [] status_code = 404 ->
                 Respond(404, "No APOD data found for the specified date. Please try a different date.", <<>>)
          [] status_code = 429 ->
                 Respond(429, "NASA API rate limit exceeded. Please try again later or use a personal API key.", <<>>)
          [] OTHER -> Respond(status_code, "NASA API error", <<>>)

\* An exception no except clause of the handler catches leaves the handler.
Unhandled == Respond(0, "unhandled exception", <<>>)

\* try/except: the first clause, in order, whose class the exception is an
\* instance of answers.
Except(e, clauses) ==
    LET hits == {i \in DOMAIN clauses : IsInstance(e, clauses[i].class)}
    IN  IF hits = {} THEN Unhandled
        ELSE LET first == CHOOSE i \in hits : \A j \in hits : i <= j
             IN  IF clauses[first].class = "HTTPError" THEN HTTPErrorAnswer(e)
                 ELSE Respond(clauses[first].status, clauses[first].message, <<>>)

\* The except clauses of get_apod with Timeout tested before ConnectionError.
ApodExceptClausesTimeoutFirst ==
    <<[class |-> "HTTPError", status |-> 0, message |-> ""],
      [class |-> "Timeout", status |-> 504,
       message |-> "NASA API request timed out. Please try again later."],
      [class |-> "ConnectionError", status |-> 503,
       message |-> "Unable to connect to NASA API. Please check your internet connection and try again."],
      [class |-> "Exception", status |-> 500, message |-> "Failed to fetch APOD"]>>

\* The except clauses of get_apod in server/app.py, in source order (the
\* HTTPError clause computes its answer from the exception).
ApodExceptClauses ==
    <<[class |-> "HTTPError", status |-> 0, message |-> ""],
      [class |-> "ConnectionError", status |-> 503,
       message |-> "Unable to connect to NASA API. Please check your internet connection and try again."],
      [class |-> "Timeout", status |-> 504,
       message |-> "NASA API request timed out. Please try again later."],
      [class |-> "Exception", status |-> 500, message |-> "Failed to fetch APOD"]>>

\* The single except clause of get_apod in python_server/app.py.
LegacyApodExceptClauses ==
    <<[class |-> "Exception", status |-> 500, message |-> "Failed to fetch APOD"]>>

\* requests.get(url, ..., timeout=timeout): one outbound HTTP request.  A
\* call without a timeout argument has timeout None and waits without limit.
HttpGet(url, timeout) == [kind |-> "get", url |-> url, timeout |-> timeout]

\* time.sleep(seconds)
Sleep(seconds) == [kind |-> "sleep", seconds |-> seconds]

\* url of fetch_apod and fetch_apod_range
apod_api_url == "https://api.nasa.gov/planetary/apod"

\* The timeout argument of requests.get in services/nasa_api.py of each
\* application: timeout=10 in server/, none in python_server/.
fetch_apod_timeout(app) == IF app = "server" THEN Some(10) ELSE None

\* GET /api/apod of server/app.py
get_apod(date, outcome) ==
    /\ request' = [op |-> "GET /api/apod", app |-> "server", date |-> date]
    /\ upstream' = outcome
    /\ response' = IF fetch_apod(date, outcome).raised
                   THEN Except(fetch_apod(date, outcome), ApodExceptClauses)
                   ELSE Respond(200, "", <<fetch_apod(date, outcome).value>>)
    /\ effects' = <<HttpGet(apod_api_url, fetch_apod_timeout("server"))>>
    /\ UNCHANGED <<store, issued>>

\* GET /api/apod of python_server/app.py
legacy_get_apod(date, outcome) ==
    /\ request' = [op |-> "GET /api/apod", app |-> "python_server", date |-> date]
    /\ upstream' = outcome
    /\ response' = IF fetch_apod(date, outcome).raised
                   THEN Except(fetch_apod(date, outcome), LegacyApodExceptClauses)
                   ELSE Respond(200, "", <<fetch_apod(date, outcome).value>>)
    /\ effects' = <<HttpGet(apod_api_url, fetch_apod_timeout("python_server"))>>
    /\ UNCHANGED <<store, issued>>

\* request.args.get('date')
ApodDates == {None, Some("2024-01-01"), Some("tomorrow")}

ApiGetApod ==
    \E date \in ApodDates, outcome \in UpstreamOutcomes : get_apod(date, outcome)

ApiGetApodLegacy ==
    \E date \in ApodDates, outcome \in UpstreamOutcomes :
        /\ ~IsTimeout(outcome)
        /\ legacy_get_apod(date, outcome)

NextApod ==
    \/ ApiGetApod
    \/ ApiGetApodLegacy

SpecApod == Init /\ [][NextApod]_vars

---------------------------------------------------------------------------
(* Direct calls of the MemStorage methods (by the seeding code, a test or  *)
(* any other caller that holds the store).  The ids they return are        *)
(* recorded in issued; no HTTP request or response is involved.            *)

UserInputs == {[username |-> Some("demo"), email |-> Some("demo@example.com"),
                passwordHash |-> Some("x")]}

ObjectInputs == {[name |-> Some("Jupiter"), type |-> Some("planet"),
                  description |-> Some("d"), coordinates |-> Some("c")]}

\* Payloads a direct caller passes to create_observation: any owner, and an
\* objectId that need not exist.
ObservationInputs ==
    {[userId |-> Some(1), objectId |-> Some(1)],
     [userId |-> Some(2), objectId |-> Some(MaxId + 1), isObserved |-> Some(TRUE),
      observationNotes |-> Some("seen")]}

\* An observation that belongs to another user than the demo user.
ForeignObservationInputs == {[userId |-> Some(2), objectId |-> Some(1)]}

UpdateInputs == {[isObserved |-> Some(TRUE), plannedDate |-> Some("2025-07-01")]}

GuideInputs == {[month |-> Some("April"), year |-> Some(2025), headline |-> Some("h"),
                 content |-> Some("c"), hemisphere |-> Some("Northern"),
                 featuredObjects |-> <<1>>]}

TipInputs == {[title |-> Some("t"), content |-> Some("c"), category |-> Some("observing"),
               imageUrl |-> Some("u")]}

Ids == 1..(MaxId + 1)

StorageCreateUser ==
    \E user_data \in UserInputs :
        /\ user_current_id < MaxId
        /\ create_user(user_data)
        /\ UNCHANGED <<request, upstream, response, effects>>

StorageCreateCelestialObject ==
    \E object_data \in ObjectInputs :
        /\ object_current_id < MaxId
        /\ create_celestial_object(object_data)
        /\ UNCHANGED <<request, upstream, response, effects>>

StorageCreateObservation ==
    \E observation_data \in ObservationInputs, now \in Times :
        /\ observation_current_id < MaxId
        /\ create_observation(observation_data, now)
        /\ UNCHANGED <<request, upstream, response, effects>>

StorageCreateForeignObservation ==
    \E observation_data \in ForeignObservationInputs, now \in Times :
        /\ observation_current_id < MaxObservations
        /\ create_observation(observation_data, now)
        /\ request' = [op |-> "storage.create_observation"]
        /\ response' = NoResponse
        /\ UNCHANGED <<upstream, effects>>

StorageUpdateObservation ==
    \E id \in Ids, update_data \in UpdateInputs :
        /\ update_observation(id, update_data)
        /\ UNCHANGED <<request, upstream, response, effects>>

StorageDeleteObservation ==
    \E id \in Ids :
        /\ delete_observation(id)
        /\ UNCHANGED <<request, upstream, response, effects>>

StorageCreateMonthlyGuide ==
    \E guide_data \in GuideInputs :
        /\ guide_current_id < MaxId
        /\ create_monthly_guide(guide_data)
        /\ UNCHANGED <<request, upstream, response, effects>>

StorageCreateTelescopeTip ==
    \E tip_data \in TipInputs :
        /\ tip_current_id < MaxId
        /\ create_telescope_tip(tip_data)
        /\ UNCHANGED <<request, upstream, response, effects>>

Next ==
    \/ StorageCreateUser
    \/ StorageCreateCelestialObject
    \/ StorageCreateObservation
    \/ StorageUpdateObservation
    \/ StorageDeleteObservation
    \/ StorageCreateMonthlyGuide
    \/ StorageCreateTelescopeTip

Spec == Init /\ [][Next]_vars

---------------------------------------------------------------------------
(* The HTTP surface on the store: requests arrive one at a time, with any  *)
(* arguments.                                                              *)

\* Query arguments of GET /api/celestial-objects tried by the HTTP specifications.
ListQueries == {<<None, None, None>>, <<Some("planet"), None, Some("Northern")>>}

\* Bodies of POST /api/observations: an existing or unknown objectId, a null
\* objectId, no objectId, and a body that names another owner.
PostObservationInputs ==
    {[objectId |-> Some(1)],
     [objectId |-> Some(MaxObjects + 1)],
     [objectId |-> None],
     [userId |-> Some(2)],
     [userId |-> Some(2), objectId |-> Some(1)]}

\* Bodies of PATCH /api/observations/id: no key, some of the three mutable
\* keys, and a body that also carries keys the store must ignore.
PatchInputs ==
    {<<>>,
     [isObserved |-> Some(TRUE)],
     [observationNotes |-> Some("clear sky"), plannedDate |-> Some("2025-07-01")],
     [isObserved |-> Some(FALSE), observationNotes |-> None, id |-> Some(0),
      userId |-> Some(2), objectId |-> Some(0), dateAdded |-> Some(0)]}

ObservationIds == 1..(MaxObservations + 1)

ObjectIds == 1..(MaxObjects + 1)

ApiGetCelestialObjects ==
    \E q \in ListQueries : api_get_celestial_objects(q[1], q[2], q[3])

ApiGetCelestialObject ==
    \E id \in ObjectIds : api_get_celestial_object(id)

ApiCreateCelestialObject ==
    \E data \in ObjectInputs :
        /\ object_current_id < MaxObjects
        /\ api_create_celestial_object(data)

ApiGetObservations == api_get_observations

ApiCreateObservation ==
    \E data \in PostObservationInputs, now \in Times :
        /\ observation_current_id < MaxObservations
        /\ api_create_observation(data, now)

ApiUpdateObservation ==
    \E id \in ObservationIds, json \in PatchInputs : api_update_observation(id, json)

ApiDeleteObservation ==
    \E id \in ObservationIds : api_delete_observation(id)

NextHttp ==
    \/ ApiGetCelestialObjects
    \/ ApiGetCelestialObject
    \/ ApiCreateCelestialObject
    \/ ApiGetObservations
    \/ ApiCreateObservation
    \/ ApiUpdateObservation
    \/ ApiDeleteObservation

\* Everything that can happen through the HTTP surface alone.
SpecHttp == Init /\ [][NextHttp]_vars

\* The handlers of the observation list on a store that other callers of
\* MemStorage write to as well (observations of any owner).
NextObs ==
    \/ ApiCreateCelestialObject
    \/ StorageCreateForeignObservation
    \/ ApiCreateObservation
    \/ ApiUpdateObservation
    \/ ApiDeleteObservation
    \/ ApiGetObservations

SpecObs == Init /\ [][NextObs]_vars

---------------------------------------------------------------------------
(* The catalogue and its filter: objects of any type, month and hemisphere *)
(* are added, and the list is queried with any filter arguments.           *)

CatalogueBase == [name |-> Some("M"), description |-> Some("d"), coordinates |-> Some("c")]

\* dict(base, **more)
Merge(base, more) ==
    [key \in DOMAIN base \cup DOMAIN more |->
        IF key \in DOMAIN more THEN more[key] ELSE base[key]]

\* Planets and galaxies: with and without a month, with no hemisphere or one
\* of Northern, Southern, both and Both.
CatalogueInputs ==
    {Merge(CatalogueBase, more) : more \in
        {[type |-> Some("planet")],
         [type |-> Some("planet"), month |-> Some("April"), hemisphere |-> Some("Northern")],
         [type |-> Some("planet"), month |-> Some("April"), hemisphere |-> Some("both")],
         [type |-> Some("planet"), hemisphere |-> Some("Both")],
         [type |-> Some("galaxy"), month |-> Some("April"), hemisphere |-> Some("Northern")],
         [type |-> Some("galaxy"), month |-> Some("July"), hemisphere |-> Some("Southern")]}}

\* request.args.get(...): None when the argument is absent, else a string.
QueryTypes == {None, Some(""), Some("planet")}
QueryMonths == {None, Some("April")}
QueryHemispheres == {None, Some(""), Some("Northern"), Some("Southern"), Some("both")}

CatalogueAdd ==
    \E data \in CatalogueInputs :
        /\ object_current_id < MaxId
        /\ api_create_celestial_object(data)

CatalogueQuery ==
    \E object_type \in QueryTypes, month \in QueryMonths, hemisphere \in QueryHemispheres :
        api_get_celestial_objects(object_type, month, hemisphere)

NextFilter ==
    \/ CatalogueAdd
    \/ CatalogueQuery

SpecFilter == Init /\ [][NextFilter]_vars

---------------------------------------------------------------------------
(* Python str and datetime values.  A str whose characters matter is the   *)
(* sequence of its one-character strings; indexes below are Python's       *)
(* (zero-based, end excluded).                                             *)

\* s[a:b]
Slice(s, a, b) == SubSeq(s, a + 1, IF b < Len(s) THEN b ELSE Len(s))

\* s[i:i+len(sub)] == sub
MatchAt(s, sub, i) ==
    /\ i + Len(sub) <= Len(s)
    /\ SubSeq(s, i + 1, i + Len(sub)) = sub

\* s.startswith(prefix)
StartsWith(s, prefix) == MatchAt(s, prefix, 0)

\* s.endswith(suffix)
EndsWith(s, suffix) == Len(suffix) <= Len(s) /\ MatchAt(s, suffix, Len(s) - Len(suffix))

RECURSIVE Find(_, _, _)
\* s.find(sub, start): the leftmost index from start on where sub occurs, or -1
Find(s, sub, start) ==
    IF start + Len(sub) > Len(s) THEN -1
    ELSE IF MatchAt(s, sub, start) THEN start
    ELSE Find(s, sub, start + 1)

\* sub in s
Contains(s, sub) == Find(s, sub, 0) # -1

RECURSIVE SplitFrom(_, _, _)
SplitFrom(s, sep, start) ==
    LET i == Find(s, sep, start)
    IN  IF i = -1 THEN <<Slice(s, start, Len(s))>>
        ELSE <<Slice(s, start, i)>> \o SplitFrom(s, sep, i + Len(sep))

\* s.split(sep) for a non-empty sep: the pieces between the occurrences of
\* sep, scanned from the left without overlap.
Split(s, sep) == SplitFrom(s, sep, 0)

upper_case ==
    <<"A", "B", "C", "D", "E", "F", "G", "H", "I", "J", "K", "L", "M",
      "N", "O", "P", "Q", "R", "S", "T", "U", "V", "W", "X", "Y", "Z">>
lower_case ==
    <<"a", "b", "c", "d", "e", "f", "g", "h", "i", "j", "k", "l", "m",
      "n", "o", "p", "q", "r", "s", "t", "u", "v", "w", "x", "y", "z">>

\* s.lower()
Lower(s) ==
    [i \in DOMAIN s |->
        IF \E k \in DOMAIN upper_case : upper_case[k] = s[i]
        THEN lower_case[CHOOSE k \in DOMAIN upper_case : upper_case[k] = s[i]]
        ELSE s[i]]

digits == <<"0", "1", "2", "3", "4", "5", "6", "7", "8", "9">>

IsDigit(c) == \E k \in DOMAIN digits : digits[k] = c

DigitValue(c) == (CHOOSE k \in DOMAIN digits : digits[k] = c) - 1

\* int(s) raises ValueError unless s is a decimal literal.  (The blanks, the
\* sign and the underscores int() also accepts are in none of the strings
\* converted here.)
IsIntLiteral(s) == Len(s) > 0 /\ \A i \in DOMAIN s : IsDigit(s[i])

RECURSIVE IntOf(_)
IntOf(s) ==
    IF Len(s) = 0 THEN 0
    ELSE 10 * IntOf(SubSeq(s, 1, Len(s) - 1)) + DigitValue(s[Len(s)])

\* f"{n:02d}" and f"{n:04d}"
Pad2(n) == <<digits[((n \div 10) % 10) + 1], digits[(n % 10) + 1]>>
Pad4(n) == Pad2(n \div 100) \o Pad2(n % 100)

\* datetime: a calendar day [year, month, day] (the time of day is 00:00 in
\* every datetime strptime("%Y-%m-%d") builds).
IsLeap(year) == (year % 4 = 0 /\ year % 100 # 0) \/ year % 400 = 0

DaysInMonth(year, month) ==
    IF month = 2 THEN (IF IsLeap(year) THEN 29 ELSE 28)
    ELSE IF month \in {4, 6, 9, 11} THEN 30 ELSE 31

RECURSIVE DaysBeforeMonth(_, _)
DaysBeforeMonth(year, month) ==
    IF month = 1 THEN 0
    ELSE DaysBeforeMonth(year, month - 1) + DaysInMonth(year, month - 1)

\* datetime.toordinal(): the day number in the proleptic Gregorian calendar
ToOrdinal(d) ==
    LET y == d.year - 1
    IN  y * 365 + (y \div 4) - (y \div 100) + (y \div 400)
        + DaysBeforeMonth(d.year, d.month) + d.day

\* d + timedelta(days=1)
NextDay(d) ==
    IF d.day < DaysInMonth(d.year, d.month) THEN [d EXCEPT !.day = @ + 1]
    ELSE IF d.month < 12 THEN [year |-> d.year, month |-> d.month + 1, day |-> 1]
    ELSE [year |-> d.year + 1, month |-> 1, day |-> 1]

\* d.strftime("%Y-%m-%d")
StrfTime(d) == Pad4(d.year) \o <<"-">> \o Pad2(d.month) \o <<"-">> \o Pad2(d.day)

\* datetime.strptime(s, "%Y-%m-%d") succeeds: a four-digit year, a month and
\* a day of one or two digits, naming a day of the calendar.
IsDateString(s) ==
    LET parts == Split(s, <<"-">>)
    IN  /\ Len(parts) = 3
        /\ \A i \in 1..3 : IsIntLiteral(parts[i])
        /\ Len(parts[1]) = 4
        /\ Len(parts[2]) \in 1..2
        /\ Len(parts[3]) \in 1..2
        /\ IntOf(parts[1]) >= 1
        /\ IntOf(parts[2]) \in 1..12
        /\ IntOf(parts[3]) \in 1..DaysInMonth(IntOf(parts[1]), IntOf(parts[2]))

\* datetime.strptime(s, "%Y-%m-%d") of a string it accepts
StrpTime(s) ==
    LET parts == Split(s, <<"-">>)
    IN  [year |-> IntOf(parts[1]), month |-> IntOf(parts[2]), day |-> IntOf(parts[3])]

---------------------------------------------------------------------------
(* services/fetch_apod.py: the APOD client that scrapes apod.nasa.gov.     *)
(* What the outside does is an input: the web site (which pages fail, and  *)
(* how, and what the other pages hold) and the clock.                      *)

\* A call returns a dict or a list, raises an exception, or never returns.
Return(value) == [kind |-> "return", value |-> value]
ReturnList(items) == [kind |-> "return", items |-> items]
Raise(class) == [kind |-> "raise", class |-> class]
Blocked == [kind |-> "blocked"]

\* requests.get against a server that behaves as outcome: a server that
\* accepts the connection and never answers ends the call with ReadTimeout
\* when the call has a timeout, and never otherwise.
requests_get(timeout, outcome) ==
    IF outcome.kind = "silent"
    THEN IF timeout = None THEN Blocked
         ELSE [kind |-> "exception", class |-> "ReadTimeout"]
    ELSE outcome

\* if s:  for an Optional str
TruthyStr(s) == s # None /\ s[1] # <<>>

base_url ==
    <<"h", "t", "t", "p", "s", ":", "/", "/", "a", "p", "o", "d", ".", "n", "a", "s",
      "a", ".", "g", "o", "v", "/", "a", "p", "o", "d", "/">>

astropix == <<"a", "s", "t", "r", "o", "p", "i", "x", ".", "h", "t", "m", "l">>

dot_html == <<".", "h", "t", "m", "l">>

\* f"ap{year[2:4]}{month}{day}.html" after year, month, day = date.split('-'),
\* which raises ValueError unless the split gives exactly three pieces.
page_date(date) ==
    LET parts == Split(date, <<"-">>)
    IN  <<"a", "p">> \o Slice(parts[1], 2, 4) \o parts[2] \o parts[3] \o dot_html

\* The url get_apod builds from its arguments; timestamp is
\* str(datetime.now().timestamp()).
ApodUrl(date, force_refresh, timestamp) ==
    LET page == IF TruthyStr(date) /\ Len(Split(date[1], <<"-">>)) = 3
                THEN page_date(date[1])
                ELSE astropix
    IN  base_url \o page
        \o (IF force_refresh
            THEN <<"?", "n", "o", "c", "a", "c", "h", "e", "=">> \o timestamp
            ELSE <<>>)

\* The date get_apod puts in the record it returns: taken from the url, or
\* today where that raises or the url has no such part.
DateFromUrl(url, today) ==
    IF Contains(url, <<"a", "p">>) /\ Contains(url, dot_html)
    THEN LET date_part == Split(Split(url, <<"a", "p">>)[2], dot_html)[1]
             yy == Slice(date_part, 0, 2)
             mm == Slice(date_part, 2, 4)
             dd == Slice(date_part, 4, 6)
         IN  IF Len(date_part) >= 6
             THEN IF ~IsIntLiteral(yy) THEN today
                  ELSE (IF IntOf(yy) < 50 THEN <<"2", "0">> ELSE <<"1", "9">>)
                       \o yy \o <<"-">> \o mm \o <<"-">> \o dd
             ELSE today
    ELSE today

\* img_src of an <img src=...>: made absolute unless it starts with 'http'
AbsoluteSrc(src) ==
    IF StartsWith(src, <<"h", "t", "t", "p">>) THEN src ELSE base_url \o src

RECURSIVE LStrip(_)
LStrip(s) == IF Len(s) > 0 /\ s[1] = " " THEN LStrip(Tail(s)) ELSE s

RECURSIVE RStrip(_)
RStrip(s) ==
    IF Len(s) > 0 /\ s[Len(s)] = " " THEN RStrip(SubSeq(s, 1, Len(s) - 1)) ELSE s

\* s.strip()  (blanks are the only white space in the titles used here)
Strip(s) == RStrip(LStrip(s))

\* The title of the record: the page's <title>, without an "APOD:" prefix.
ApodTitle(title_elem) ==
    LET title == IF title_elem # None THEN title_elem[1]
                 ELSE "NASA Astronomy Picture of the Day"
    IN  IF title_elem # None /\ StartsWith(title, <<"A", "P", "O", "D", ":">>)
        THEN Strip(Slice(title, 5, Len(title)))
        ELSE title

\* What the site answers for url: the pages named in site.bad fail as
\* site.failure says, every other page is answered with site.page.
PageOutcome(site, url) ==
    IF \E b \in site.bad : StartsWith(url, base_url \o b) THEN site.failure ELSE site.page

\* The error entry of the `except requests.exceptions.RequestException`
\* clause (the message is cut before str(e)).
FetchError(status_code) ==
    [error |-> TRUE, message |-> "Error fetching APOD data", status_code |-> status_code]

\* img_src: the absolute src of the <img>, else the src of the <iframe>.
MediaSrc(page) == IF page.img # None THEN AbsoluteSrc(page.img[1]) ELSE page.iframe[1]

\* The try block of get_apod once requests.get(url) has ended as got: the
\* except clause answers a RequestException (raise_for_status included),
\* and what BeautifulSoup raises leaves the function.
Scrape(url, got, today) ==
    IF got.kind = "blocked" THEN Blocked
    ELSE IF got.kind = "exception" THEN Return(FetchError(500))
    ELSE IF IsErrorStatus(got.status) THEN Return(FetchError(got.status))
    ELSE IF ~got.page.parses THEN Raise("ParserRejectedMarkup")
    ELSE IF got.page.img = None /\ got.page.iframe = None
    THEN Return([error |-> TRUE,
                 message |-> "Could not find image or video in APOD page"])
    ELSE Return([date |-> DateFromUrl(url, today),
                 title |-> ApodTitle(got.page.title),
                 explanation |-> got.page.explanation,
                 url |-> MediaSrc(got.page),
                 hdurl |-> MediaSrc(got.page),
                 media_type |-> IF got.page.img # None THEN "image" ELSE "video",
                 service_version |-> "v1",
                 copyright |-> got.page.copyright])

\* response = requests.get(url) and what follows it.
Requested(url, site) ==
    [did |-> Scrape(url, requests_get(None, PageOutcome(site, url)), site.today),
     effects |-> <<HttpGet(url, None)>>]

\* get_apod(date, force_refresh) of fetch_apod.py: what the call does and
\* the request it makes.  The page is its first <img> and <iframe> (the src
\* of each, None without the tag or the attribute), its <title>, and the
\* text and the copyright line the paragraph loop and the two patterns
\* extract, which are taken from the page as they are.
scraper_get_apod(date, force_refresh, site) ==
    Requested(ApodUrl(date, force_refresh, site.timestamp), site)

\* max_days = 30
max_days == 30

\* The day count without the `+ 1`.
num_days_exclusive(start, end) == ToOrdinal(end) - ToOrdinal(start)

\* num_days = (end - start).days + 1
num_days(start, end) == ToOrdinal(end) - ToOrdinal(start) + 1

\* The error entry of the `except Exception` clause of get_apod_range (the
\* message is cut before str(e)).
RangeError == [error |-> TRUE, message |-> "Error fetching APOD range"]

RECURSIVE DayAfter(_, _)
\* current_date after n rounds of current_date += timedelta(days=1).
DayAfter(d, n) == IF n = 0 THEN d ELSE DayAfter(NextDay(d), n - 1)

\* The least number of a non-empty set of numbers.
Least(S) == CHOOSE n \in S : \A m \in S : n <= m

\* "error" not in apod_data or not apod_data["error"]
IsRecord(apod_data) == "error" \notin DOMAIN apod_data \/ ~apod_data.error

\* The while loop of get_apod_range over the calls of get_apod it would
\* make, in order: a call that does not return ends the loop (stop is its
\* index, 0 when every call returns), and the records without an error
\* are appended to results.
Collected(calls, stop) ==
    IF stop > 0
    THEN [did |-> calls[stop].did, effects |-> [i \in 1..stop |-> calls[i].effects[1]]]
    ELSE [did |-> ReturnList(SelectSeq([i \in DOMAIN calls |-> calls[i].did.value], IsRecord)),
          effects |-> [i \in DOMAIN calls |-> calls[i].effects[1]]]

\* The index of the first call that does not return, 0 if there is none.
FirstStop(stops) == IF stops = {} THEN 0 ELSE Least(stops)

\* The loop, given the calls of get_apod it would make for the days in order.
Loop(calls) ==
    Collected(calls, FirstStop({i \in DOMAIN calls : calls[i].did.kind # "return"}))

\* current_date = start; while current_date <= end_date: get_apod(date_str)
FetchDays(start, end, site) ==
    Loop([i \in 1..(ToOrdinal(end) - ToOrdinal(start) + 1) |->
             scraper_get_apod(Some(StrfTime(DayAfter(start, i - 1))), FALSE, site)])

\* The except clause of get_apod_range: an exception get_apod raised for
\* one of the days is answered with the error entry.
ExceptException(loop) ==
    IF loop.did.kind = "raise"
    THEN [did |-> Return(RangeError), effects |-> loop.effects]
    ELSE loop

\* get_apod_range once strptime has parsed both dates.  The f-string of the
\* second message is kept as its template and the value it interpolates.
DatedRange(start, end, site) ==
    IF ToOrdinal(end) < ToOrdinal(start)
    THEN [did |-> Return([error |-> TRUE,
                          message |-> "End date cannot be before start date"]),
          effects |-> <<>>]
    ELSE IF num_days(start, end) > max_days
    THEN [did |-> Return([error |-> TRUE,
                          message |-> "Date range too large. Maximum range is {max_days} days.",
                          max_days |-> max_days]),
          effects |-> <<>>]
    ELSE ExceptException(FetchDays(start, end, site))

\* get_apod_range(start_date, end_date): a ValueError of strptime is
\* answered by the except clause too.
get_apod_range(start_date, end_date, site) ==
    IF ~IsDateString(start_date) \/ ~IsDateString(end_date)
    THEN [did |-> Return(RangeError), effects |-> <<>>]
    ELSE DatedRange(StrpTime(start_date), StrpTime(end_date), site)

\* The pages of the site: one with a relative image, one with a video.
PageImage ==
    [parses |-> TRUE, img |-> Some(<<"i", ".", "j", "p", "g">>), iframe |-> None,
     title |-> Some(<<"A", "P", "O", "D", ":", " ", "M", "1", " ">>),
     explanation |-> "text", copyright |-> None]

PageVideo ==
    [parses |-> TRUE, img |-> None, iframe |-> Some(<<"h", "t", "t", "p", ":", "/", "/", "v">>),
     title |-> None, explanation |-> "text", copyright |-> Some("NASA")]

\* A page with neither an <img src> nor an <iframe src>.
PageEmpty ==
    [parses |-> TRUE, img |-> None, iframe |-> None, title |-> None,
     explanation |-> "", copyright |-> None]

\* Markup the parser rejects: BeautifulSoup raises ParserRejectedMarkup.
PageRejected == [parses |-> FALSE]

SitePages ==
    {[kind |-> "response", status |-> 200, page |-> p] : p \in {PageImage, PageVideo}}

\* The ways one page can fail.
SiteFailures ==
    {[kind |-> "exception", class |-> "ConnectionError"],
     [kind |-> "response", status |-> 404],
     [kind |-> "response", status |-> 200, page |-> PageEmpty],
     [kind |-> "response", status |-> 200, page |-> PageRejected],
     [kind |-> "silent"]}

Page_240228 == <<"a", "p", "2", "4", "0", "2", "2", "8", ".", "h", "t", "m", "l">>
Page_240229 == <<"a", "p", "2", "4", "0", "2", "2", "9", ".", "h", "t", "m", "l">>

Date_1999_12_31 == <<"1", "9", "9", "9", "-", "1", "2", "-", "3", "1">>
Date_2000_01_01 == <<"2", "0", "0", "0", "-", "0", "1", "-", "0", "1">>
Date_2023_12_31 == <<"2", "0", "2", "3", "-", "1", "2", "-", "3", "1">>
Date_2024_02_27 == <<"2", "0", "2", "4", "-", "0", "2", "-", "2", "7">>
Date_2024_02_28 == <<"2", "0", "2", "4", "-", "0", "2", "-", "2", "8">>
Date_2024_02_29 == <<"2", "0", "2", "4", "-", "0", "2", "-", "2", "9">>
Date_2024_02_30 == <<"2", "0", "2", "4", "-", "0", "2", "-", "3", "0">>
Date_2024_03_01 == <<"2", "0", "2", "4", "-", "0", "3", "-", "0", "1">>
Date_2024_03_28 == <<"2", "0", "2", "4", "-", "0", "3", "-", "2", "8">>
Date_2024_03_29 == <<"2", "0", "2", "4", "-", "0", "3", "-", "2", "9">>

\* The site and the clock: datetime.now() as strftime("%Y-%m-%d") and as
\* str(timestamp()).
ApodSites(failing) ==
    {[bad |-> bad, failure |-> failure, page |-> page, today |-> today,
      timestamp |-> <<"1", "7", ".", "5">>] :
        bad \in SUBSET failing, failure \in SiteFailures, page \in SitePages,
        today \in {Date_2024_02_29, Date_2024_03_29}}

\* The date arguments of get_apod: none, dates, and a string that is no date.
ScrapeDates ==
    {None, Some(Date_2024_02_29), Some(Date_1999_12_31),
     Some(<<"t", "o", "m", "o", "r", "r", "o", "w">>)}

\* The arguments of get_apod_range: end before start, 1, 2, 3, 30 and 31
\* days, and an end that is no day of the calendar.
RangeInputs ==
    {<<Date_2024_02_28, Date_2024_02_27>>, <<Date_2024_02_28, Date_2023_12_31>>,
     <<Date_2024_02_28, Date_2024_02_28>>, <<Date_1999_12_31, Date_2000_01_01>>,
     <<Date_2024_02_28, Date_2024_03_01>>, <<Date_2024_02_28, Date_2024_03_28>>,
     <<Date_2024_02_28, Date_2024_03_29>>, <<Date_2024_02_28, Date_2024_02_30>>}

\* get_apod is called, on a site where today's page, the page of
\* 2024-02-29, both or neither fail.
InitScrape ==
    /\ InitStore
    /\ request = NoRequest
    /\ upstream \in ApodSites({astropix, Page_240229})
    /\ response = NoResponse
    /\ effects = <<>>

ScraperGetApod ==
    \E date \in ScrapeDates, force_refresh \in BOOLEAN :
        LET call == scraper_get_apod(date, force_refresh, upstream)
        IN  /\ request' = [op |-> "fetch_apod.get_apod", date |-> date,
                           force_refresh |-> force_refresh]
            /\ response' = call.did
            /\ effects' = call.effects
            /\ UNCHANGED <<store, issued, upstream>>

NextScrape == ScraperGetApod

SpecScrape == InitScrape /\ [][NextScrape]_vars

\* get_apod_range is called, on a site where the page of 2024-02-28, the
\* page of 2024-02-29, both or neither fail.
InitRange ==
    /\ InitStore
    /\ request \in {[op |-> "fetch_apod.get_apod_range", start_date |-> range[1],
                     end_date |-> range[2]] : range \in RangeInputs}
    /\ upstream \in ApodSites({Page_240228, Page_240229})
    /\ response = NoResponse
    /\ effects = <<>>

\* The call returns: what get_apod_range does with the two dates on this site.
ScraperGetApodRange ==
    LET call == get_apod_range(request.start_date, request.end_date, upstream)
    IN  /\ response' = call.did
        /\ effects' = call.effects
        /\ UNCHANGED <<store, issued, request, upstream>>

NextRange == ScraperGetApodRange

SpecRange == InitRange /\ [][NextRange]_vars

---------------------------------------------------------------------------
(* The APOD client called directly: fetch_apod and fetch_apod_range of     *)
(* services/nasa_api.py in both applications, and get_apod of              *)
(* services/fetch_apod.py, against an upstream that answers, fails, or     *)
(* accepts the connection and stays silent.                                *)

\* fetch_apod_range: the list of APOD records returned, or the exception
\* raised.
fetch_apod_range(start_date, end_date, outcome) ==
    IF outcome.kind = "exception"
    THEN [raised |-> TRUE, class |-> outcome.class, response |-> None]
    ELSE IF IsErrorStatus(outcome.status)
    THEN [raised |-> TRUE, class |-> "HTTPError", response |-> Some(outcome.status)]
    ELSE IF ~outcome.json
    THEN [raised |-> TRUE, class |-> "JSONDecodeError", response |-> None]
    ELSE [raised |-> FALSE,
          value |-> <<[date |-> start_date, media_type |-> "image"],
                      [date |-> end_date, media_type |-> "image"]>>]

Silent == [kind |-> "silent"]

ClientOutcomes == UpstreamOutcomes \cup {Silent}

\* A call of requests.get without a timeout raises no Timeout exception.
CanHappen(app, outcome) == fetch_apod_timeout(app) = None => ~IsTimeout(outcome)

CallFetchApod ==
    \E app \in Apps, date \in ApodDates, outcome \in ClientOutcomes :
        LET got == requests_get(fetch_apod_timeout(app), outcome)
        IN  /\ CanHappen(app, outcome)
            /\ request' = [op |-> "nasa_api.fetch_apod", app |-> app, date |-> date]
            /\ upstream' = outcome
            /\ response' = IF got = Blocked THEN Blocked ELSE fetch_apod(date, got)
            /\ effects' = <<HttpGet(apod_api_url, fetch_apod_timeout(app))>>
            /\ UNCHANGED <<store, issued>>

CallFetchApodRange ==
    \E app \in Apps, outcome \in ClientOutcomes :
        LET got == requests_get(fetch_apod_timeout(app), outcome)
        IN  /\ CanHappen(app, outcome)
            /\ request' = [op |-> "nasa_api.fetch_apod_range", app |-> app,
                           start_date |-> "2024-01-01", end_date |-> "2024-01-02"]
            /\ upstream' = outcome
            /\ response' = IF got = Blocked THEN Blocked
                           ELSE fetch_apod_range("2024-01-01", "2024-01-02", got)
            /\ effects' = <<HttpGet(apod_api_url, fetch_apod_timeout(app))>>
            /\ UNCHANGED <<store, issued>>

\* The sites get_apod is called on here: today's page (astropix.html) is
\* served, or fails in one of the ways a page can fail.
ClientSites ==
    {site \in ApodSites({astropix}) : site.today = Date_2024_02_29 /\ site.page.page = PageImage}

CallScraperGetApod ==
    \E date \in {None, Some(Date_2024_02_29)}, site \in ClientSites :
        LET call == scraper_get_apod(date, FALSE, site)
        IN  /\ request' = [op |-> "fetch_apod.get_apod", date |-> date,
                           force_refresh |-> FALSE]
            /\ upstream' = site
            /\ response' = call.did
            /\ effects' = call.effects
            /\ UNCHANGED <<store, issued>>

NextClient ==
    \/ CallFetchApod
    \/ CallFetchApodRange
    \/ CallScraperGetApod

SpecClient == Init /\ [][NextClient]_vars

---------------------------------------------------------------------------
(* services/nasa_images.py: the image resolver.  A server answers the      *)
(* successive requests made to it: the first Len(failures) of them fail,   *)
(* each as failures says, and every later one is answered 200 with body as *)
(* JSON.                                                                   *)

\* One attempt more than the loop makes.
four_attempts == 2 + 2

\* max_retries: int = 3
max_retries == 3

\* The longest run of failing requests a server starts with.
MaxFails == 3

\* What the server does with the n-th request made to it.
OutcomeAt(server, n) ==
    IF n <= Len(server.failures) THEN server.failures[n]
    ELSE [kind |-> "response", status |-> 200, json |-> TRUE, body |-> server.body]

\* The exception requests.get, raise_for_status or response.json() raises
\* for an outcome, None if none does.
RequestFailure(got) ==
    IF got.kind = "exception" THEN Some(got.class)
    ELSE IF IsErrorStatus(got.status) THEN Some("HTTPError")
    ELSE IF ~got.json THEN Some("JSONDecodeError")
    ELSE None

\* An except clause that lets HTTPError pass.
CaughtUnlessHTTPError(class) ==
    IsInstance([class |-> class], "RequestException") /\ class # "HTTPError"

\* except requests.exceptions.RequestException
Caught(class) == IsInstance([class |-> class], "RequestException")

\* A wait of one second whatever the attempt.
BackoffConstant(attempt) == 1

\* time.sleep(2 ** attempt)
Backoff(attempt) == 2 ^ attempt

RECURSIVE make_api_request_from(_, _, _, _)
\* The loop of make_api_request from attempt on; done is what was done in
\* the attempts before.  Without a return in the loop the function returns
\* None.
make_api_request_from(url, server, attempt, done) ==
    IF attempt >= max_retries THEN [did |-> Return(None), effects |-> done]
    ELSE LET got == requests_get(Some(30), OutcomeAt(server, attempt + 1))
             made == Append(done, HttpGet(url, Some(30)))
             e == RequestFailure(got)
         IN  IF e = None THEN [did |-> Return(Some(got.body)), effects |-> made]
             ELSE IF ~Caught(e[1]) THEN [did |-> Raise(e[1]), effects |-> made]
             ELSE IF attempt < max_retries - 1
             THEN make_api_request_from(url, server, attempt + 1,
                                        Append(made, Sleep(Backoff(attempt))))
             ELSE [did |-> Return(None), effects |-> made]

\* make_api_request(url, params)
make_api_request(url, server) == make_api_request_from(url, server, 0, <<>>)

search_url == "https://images-api.nasa.gov/search"

\* f"https://images-api.nasa.gov/asset/{nasa_id}"
asset_url(nasa_id) == "https://images-api.nasa.gov/asset/" \o nasa_id

\* The ways one request can fail.
RequestFailures ==
    {[kind |-> "exception", class |-> "ConnectionError"],
     [kind |-> "response", status |-> 503, json |-> TRUE],
     [kind |-> "response", status |-> 200, json |-> FALSE],
     Silent}

RECURSIVE SeqsUpTo(_, _)
\* The sequences of at most n elements of S.
SeqsUpTo(S, n) ==
    IF n = 0 THEN {<<>>}
    ELSE SeqsUpTo(S, n - 1)
         \cup {Append(s, x) : s \in {t \in SeqsUpTo(S, n - 1) : Len(t) = n - 1}, x \in S}

RetryServers ==
    {[failures |-> f, body |-> b] :
        f \in SeqsUpTo(RequestFailures, MaxFails),
        b \in {[collection |-> [items |-> <<>>]], [reason |-> "no"]}}

\* make_api_request is called against one server.
InitRetry ==
    /\ InitStore
    /\ request = NoRequest
    /\ upstream \in RetryServers
    /\ response = NoResponse
    /\ effects = <<>>

CallMakeApiRequest ==
    \E url \in {search_url, asset_url("PIA1")} :
        LET call == make_api_request(url, upstream)
        IN  /\ request' = [op |-> "nasa_images.make_api_request", url |-> url]
            /\ response' = call.did
            /\ effects' = call.effects
            /\ UNCHANGED <<store, issued, upstream>>

NextRetry == CallMakeApiRequest

SpecRetry == InitRetry /\ [][NextRetry]_vars

\* bool(d) for a dict
DictTruthy(d) == DOMAIN d # {}

\* href.endswith(('.jpg', '.jpeg', '.png'))
IsImageLink(href) ==
    \/ EndsWith(href, <<".", "j", "p", "g">>)
    \/ EndsWith(href, <<".", "j", "p", "e", "g">>)
    \/ EndsWith(href, <<".", "p", "n", "g">>)

\* 'large' in href.lower() or '1024' in href or '2048' in href
IsLarger(href) ==
    \/ Contains(Lower(href), <<"l", "a", "r", "g", "e">>)
    \/ Contains(href, <<"1", "0", "2", "4">>)
    \/ Contains(href, <<"2", "0", "4", "8">>)

RECURSIVE first_image_link(_, _, _)
\* The first link with an image extension, whatever its name.
first_image_link(items, i, best_url) ==
    IF i > Len(items) THEN best_url
    ELSE IF IsImageLink(GetDefault(items[i], "href", <<>>))
    THEN Some(GetDefault(items[i], "href", <<>>))
    ELSE first_image_link(items, i + 1, best_url)

RECURSIVE best_url_from(_, _, _)
\* The loop `for item in items` of extract_best_image_url from the i-th
\* item on, with best_url as the items before left it.
best_url_from(items, i, best_url) ==
    IF i > Len(items) THEN best_url
    ELSE LET href == GetDefault(items[i], "href", <<>>)
         IN  IF IsImageLink(href)
             THEN IF IsLarger(href) THEN Some(href)
                  ELSE best_url_from(items, i + 1, IF best_url = None THEN Some(href) ELSE best_url)
             ELSE best_url_from(items, i + 1, best_url)

\* item['data'][0] raises neither KeyError nor IndexError
HasFirstData(item) == "data" \in DOMAIN item /\ Len(item.data) > 0

\* extract_best_image_url(api_response, query): the url returned (None
\* after any exception, which the function catches) and the requests made
\* for the asset manifest.
extract_best_image_url(api_response, asset) ==
    LET nothing == [value |-> None, effects |-> <<>>]
        items == GetDefault(api_response[1].collection, "items", <<>>)
        call == make_api_request(asset_url(items[1].data[1].nasa_id), asset)
        asset_response == call.did.value
    IN  IF api_response = None \/ ~DictTruthy(api_response[1])
           \/ "collection" \notin DOMAIN api_response[1]
        THEN nothing
        ELSE IF items = <<>> THEN nothing
        ELSE IF ~HasFirstData(items[1]) \/ "nasa_id" \notin DOMAIN items[1].data[1]
        THEN nothing
        ELSE IF call.did.kind = "raise" \/ asset_response = None
                \/ ~DictTruthy(asset_response[1])
        THEN [value |-> None, effects |-> call.effects]
        ELSE [value |-> best_url_from(
                            GetDefault(GetDefault(asset_response[1], "collection", <<>>),
                                       "items", <<>>),
                            1, None),
              effects |-> call.effects]

wikipedia_endpoint == "https://en.wikipedia.org/w/api.php"

RECURSIVE FirstThumbnail(_, _)
\* The first page from the i-th on with a thumbnail that has a source, as
\* the index of the page, 0 if there is none.
FirstThumbnail(pages, i) ==
    IF i > Len(pages) THEN 0
    ELSE IF "thumbnail" \in DOMAIN pages[i] /\ "source" \in DOMAIN pages[i].thumbnail
    THEN i
    ELSE FirstThumbnail(pages, i + 1)

\* search_wikipedia_image(object_name): one request; pages is the dict of
\* the answer as the sequence of its values.
search_wikipedia_image(object_name, wiki) ==
    LET got == requests_get(Some(15), wiki)
        failed == [success |-> FALSE, image_url |-> None, source |-> "wikipedia",
                   title |-> object_name]
        pages == GetDefault(GetDefault(got.body, "query", <<>>), "pages", <<>>)
        hit == FirstThumbnail(pages, 1)
    IN  [value |-> IF RequestFailure(got) # None THEN failed
                   ELSE IF hit = 0 THEN failed
                   ELSE [success |-> TRUE,
                         image_url |-> Some(pages[hit].thumbnail.source),
                         source |-> "wikipedia",
                         title |-> GetDefault(pages[hit], "title", object_name)],
         effects |-> <<HttpGet(wikipedia_endpoint, Some(15))>>]

\* The data of the last item of a search answer.
LastData(items) == items[Len(items)].data[1]

\* data = items[0]['data'][0]
FirstData(items) == items[1].data[1]

\* The try block of search_celestial_object_image.
search_celestial_object_image_unguarded(object_name, world) ==
    LET search == make_api_request(search_url, world.search)
        search_result == search.did.value
        found == search_result # None /\ DictTruthy(search_result[1])
        extract == IF found THEN extract_best_image_url(search_result, world.asset)
                   ELSE [value |-> None, effects |-> <<>>]
        items == GetDefault(search_result[1].collection, "items", <<>>)
        data == FirstData(items)
        metadata == IF found /\ items # <<>>
                    THEN [title |-> GetDefault(data, "title", ""),
                          description |-> GetDefault(data, "description", ""),
                          date_created |-> GetDefault(data, "date_created", ""),
                          center |-> GetDefault(data, "center", ""),
                          nasa_id |-> GetDefault(data, "nasa_id", "")]
                    ELSE <<>>
        wiki == search_wikipedia_image(object_name, world.wiki)
        nasa_effects == search.effects \o extract.effects
    IN  IF search.did.kind = "raise"
        THEN [did |-> search.did, effects |-> search.effects]
        ELSE IF found /\ "collection" \notin DOMAIN search_result[1]
        THEN [did |-> Raise("KeyError"), effects |-> nasa_effects]
        ELSE IF found /\ items # <<>> /\ "data" \notin DOMAIN items[1]
        THEN [did |-> Raise("KeyError"), effects |-> nasa_effects]
        ELSE IF found /\ items # <<>> /\ Len(items[1].data) = 0
        THEN [did |-> Raise("IndexError"), effects |-> nasa_effects]
        ELSE IF TruthyStr(extract.value)
        THEN [did |-> Return([success |-> TRUE, object_name |-> object_name,
                              image_url |-> extract.value, metadata |-> metadata,
                              source |-> "nasa"]),
              effects |-> nasa_effects]
        ELSE IF wiki.value.success /\ TruthyStr(wiki.value.image_url)
        THEN [did |-> Return([success |-> TRUE, object_name |-> object_name,
                              image_url |-> wiki.value.image_url,
                              metadata |-> [source |-> "wikipedia",
                                            title |-> wiki.value.title],
                              source |-> "wikipedia"]),
              effects |-> nasa_effects \o wiki.effects]
        ELSE [did |-> Return([success |-> FALSE,
                              error |-> "No suitable image found in NASA or Wikipedia database",
                              object_name |-> object_name, image_url |-> None]),
              effects |-> nasa_effects \o wiki.effects]

\* search_celestial_object_image(object_name): the try block, and the
\* `except Exception` clause (its message is cut before str(e)).
search_celestial_object_image(object_name, world) ==
    LET try == search_celestial_object_image_unguarded(object_name, world)
    IN  IF try.did.kind = "raise" /\ IsInstance(try.did, "Exception")
        THEN [did |-> Return([success |-> FALSE, error |-> "Unexpected error",
                              object_name |-> object_name, image_url |-> None]),
              effects |-> try.effects]
        ELSE try

\* The longest list of links of a manifest.
MaxLinks == 3

\* The items a manifest is made of: links to images with and without a
\* name that tells a larger size, links to other files, and an item without
\* a link.
LinkItems ==
    {[href |-> <<"a", ".", "j", "p", "g">>],
     [href |-> <<"b", ".", "p", "n", "g">>],
     [href |-> <<"L", "A", "R", "G", "E", ".", "j", "p", "e", "g">>],
     [href |-> <<"1", "0", "2", "4", ".", "p", "n", "g">>],
     [href |-> <<"2", "0", "4", "8", ".", "t", "i", "f">>],
     [href |-> <<"c", ".", "J", "P", "G">>],
     [href |-> <<"l", "a", "r", "g", "e", ".", "j", "s", "o", "n">>],
     [rel |-> "captions"]}

\* The JSON of a manifest with these items.
Manifest(items) == [collection |-> [items |-> items]]

\* The JSON of a search answer whose first item names an asset.
SearchHit ==
    [collection |-> [items |-> <<[data |-> <<[nasa_id |-> "PIA1", title |-> "M57"]>>]>>]]

\* The JSON of a search answer with two items.
SearchHits ==
    [collection |->
        [items |-> <<[data |-> <<[nasa_id |-> "PIA2", title |-> "Ring Nebula",
                                  description |-> "M57 in Lyra", date_created |-> "2013",
                                  center |-> "JPL"]>>],
                     [data |-> <<[nasa_id |-> "PIA3", title |-> "M31"]>>]>>]]

\* A server that answers every request with body.
Answers(body) == [failures |-> <<>>, body |-> body]

\* extract_best_image_url is called on a search answer, against an asset
\* server that holds one manifest.
InitLinks ==
    /\ InitStore
    /\ request = NoRequest
    /\ upstream \in {Answers(Manifest(items)) : items \in SeqsUpTo(LinkItems, MaxLinks)}
    /\ response = NoResponse
    /\ effects = <<>>

CallExtractBestImageUrl ==
    LET call == extract_best_image_url(Some(SearchHit), upstream)
    IN  /\ request' = [op |-> "nasa_images.extract_best_image_url",
                       api_response |-> SearchHit]
        /\ response' = Return(call.value)
        /\ effects' = call.effects
        /\ UNCHANGED <<store, issued, upstream>>

NextLinks == CallExtractBestImageUrl

SpecLinks == InitLinks /\ [][NextLinks]_vars

\* What the search can answer: a hit, no item, and answers that lack the
\* structure of one.
SearchBodies ==
    {SearchHit,
     SearchHits,
     <<>>,
     [reason |-> "no"],
     [collection |-> [version |-> "1.0"]],
     [collection |-> [items |-> <<>>]],
     [collection |-> [items |-> <<[href |-> "u"]>>]],
     [collection |-> [items |-> <<[data |-> <<>>]>>]],
     [collection |-> [items |-> <<[data |-> <<[title |-> "M57"]>>]>>]]}

ConnectionFails == [kind |-> "exception", class |-> "ConnectionError"]
Unavailable == [kind |-> "response", status |-> 503, json |-> TRUE]

SearchServers ==
    {Answers(b) : b \in SearchBodies}
    \cup {[failures |-> <<ConnectionFails>>, body |-> SearchHit],
          [failures |-> <<ConnectionFails, Silent, Unavailable>>, body |-> SearchHit]}

AssetServers ==
    {Answers(Manifest(<<[href |-> <<"a", ".", "j", "p", "g">>],
                        [href |-> <<"L", "A", "R", "G", "E", ".", "j", "p", "e", "g">>]>>)),
     Answers(Manifest(<<[href |-> <<"2", "0", "4", "8", ".", "t", "i", "f">>]>>)),
     Answers(<<>>),
     Answers([reason |-> "no"]),
     [failures |-> <<Unavailable>>,
      body |-> Manifest(<<[href |-> <<"b", ".", "p", "n", "g">>]>>)],
     [failures |-> <<Unavailable, Unavailable, ConnectionFails>>, body |-> <<>>]}

Thumbnail == [source |-> <<"w", ".", "j", "p", "g">>, width |-> 800]

\* What Wikipedia does with the one request: pages with and without a
\* thumbnail, an answer without pages, and the failures of a request.
WikiOutcomes ==
    {[kind |-> "response", status |-> 200, json |-> TRUE, body |-> b] :
        b \in {[query |-> [pages |-> <<[title |-> "Ring Nebula", thumbnail |-> Thumbnail]>>]],
               [query |-> [pages |-> <<[title |-> "M57", missing |-> ""],
                                       [thumbnail |-> Thumbnail]>>]],
               [query |-> [pages |-> <<[title |-> "M57", missing |-> ""]>>]],
               [query |-> [pages |-> <<[title |-> "M57", thumbnail |-> [width |-> 800]]>>]],
               [query |-> [pages |-> <<[title |-> "M57", thumbnail |-> [source |-> <<>>]]>>]],
               [batchcomplete |-> ""]}}
    \cup RequestFailures

ImageWorlds ==
    {[search |-> s, asset |-> a, wiki |-> w] :
        s \in SearchServers, a \in AssetServers, w \in WikiOutcomes}

\* search_celestial_object_image is called in one world.
InitImage ==
    /\ InitStore
    /\ request = NoRequest
    /\ upstream \in ImageWorlds
    /\ response = NoResponse
    /\ effects = <<>>

SearchCelestialObjectImage ==
    \E object_name \in {"M57", "Andromeda Galaxy"} :
        LET call == search_celestial_object_image(object_name, upstream)
        IN  /\ request' = [op |-> "nasa_images.search_celestial_object_image",
                           object_name |-> object_name]
            /\ response' = call.did
            /\ effects' = call.effects
            /\ UNCHANGED <<store, issued, upstream>>

NextImage == SearchCelestialObjectImage

SpecImage == InitImage /\ [][NextImage]_vars

---------------------------------------------------------------------------
(* POST /api/celestial-objects followed by GET /api/celestial-objects/{id}: *)
(* the bodies a client can send, and the two handlers on their own.        *)

\* The handlers create at most MaxPosts celestial objects.
MaxPosts == 3

\* request.json of POST /api/celestial-objects: the four required keys
\* only, bodies that supply some of the keys that have a default (a null
\* and an empty string among the values), a type outside
\* celestial_object_types, and a body without type.
PostObjectInputs ==
    {[name |-> Some("Test"), type |-> Some("planet"), description |-> Some("d"),
      coordinates |-> Some("c")],
     [name |-> Some("M57"), type |-> Some("nebula"), description |-> Some("d"),
      coordinates |-> Some("c"), month |-> Some("July"), hemisphere |-> Some("Northern"),
      bestViewingTime |-> Some("22:00"), visibilityRating |-> Some("Good"),
      imageUrl |-> Some("http://x/m57.png"), constellation |-> Some("Lyra")],
     [name |-> Some("M31"), type |-> Some("galaxy"), description |-> Some("d"),
      coordinates |-> Some("c"), information |-> None, magnitude |-> Some(""),
      recommendedEyepiece |-> Some("25mm")],
     [name |-> Some("Halley"), type |-> Some("comet"), description |-> Some("d"),
      coordinates |-> Some("c")],
     [name |-> Some("X")]}

ApiPostCelestialObject ==
    \E data \in PostObjectInputs :
        /\ object_current_id < MaxPosts
        /\ api_create_celestial_object(data)

\* GET /api/celestial-objects/<int:id> for the ids handed out and one more.
ApiGetPostedObject ==
    \E id \in 1..(MaxPosts + 1) : api_get_celestial_object(id)

NextObjects ==
    \/ ApiPostCelestialObject
    \/ ApiGetPostedObject

SpecObjects == Init /\ [][NextObjects]_vars

---------------------------------------------------------------------------
(* GET /api/monthly-guide (the same handler in both applications) on a     *)
(* store that holds monthly guides.  The query parameters are strings or   *)
(* absent; the year is a string of characters, converted with int().       *)

\* The store holds at most MaxGuides monthly guides.
MaxGuides == 2

\* MonthlyGuide.to_dict
MonthlyGuideToDict(guide) ==
    [id |-> guide.id,
     month |-> guide.month,
     year |-> guide.year,
     headline |-> guide.headline,
     content |-> guide.content,
     hemisphere |-> guide.hemisphere,
     featuredObjects |-> guide.featured_objects]

\* g.month == month and g.year == year and
\* (g.hemisphere == hemisphere or g.hemisphere == 'both')
GuideMatches(g, month, year, hemisphere) ==
    /\ g.month = Some(month)
    /\ g.year = Some(year)
    /\ g.hemisphere = Some(hemisphere) \/ g.hemisphere = Some("both")

\* next((g for g in guides if ...), None)
FirstGuide(guides, month, year, hemisphere) ==
    LET hits == {i \in DOMAIN guides : GuideMatches(guides[i], month, year, hemisphere)}
    IN  IF hits = {} THEN None ELSE Some(guides[Least(hits)])

\* The handler once int() has converted the year.
GuideAnswer(guide) ==
    IF guide = None THEN Respond(404, "Monthly guide not found", <<>>)
    ELSE Respond(200, "", <<MonthlyGuideToDict(guide[1])>>)

\* GET /api/monthly-guide?month=&year=&hemisphere= at the time now, which
\* get_current_month() and get_current_year() read.  int() of a year that
\* is no decimal literal raises ValueError, which the except clause
\* answers with 500 (the message is cut before str(e)).
api_get_monthly_guide(month, year, hemisphere, now) ==
    /\ request' = [op |-> "GET /api/monthly-guide", month |-> month, year |-> year,
                   hemisphere |-> hemisphere, now |-> now]
    /\ response' =
           IF TruthyStr(year) /\ ~IsIntLiteral(year[1])
           THEN Respond(500, "Failed to get monthly guide", <<>>)
           ELSE GuideAnswer(FirstGuide(get_all_monthly_guides,
                                       IF Truthy(month) THEN month[1] ELSE now.month,
                                       IF TruthyStr(year) THEN IntOf(year[1]) ELSE now.year,
                                       IF Truthy(hemisphere) THEN hemisphere[1]
                                       ELSE "Northern"))
    /\ UNCHANGED <<store, issued, upstream, effects>>

\* The guides written to the store: the three hemispheres, another year,
\* another month, and a hemisphere spelled 'Both'.
GuideCatalogue ==
    {[month |-> Some("April"), year |-> Some(2025), headline |-> Some(h),
      content |-> Some("c"), hemisphere |-> Some(hemisphere), featuredObjects |-> <<1>>] :
        h \in {"h"}, hemisphere \in {"Northern", "Southern", "both", "Both"}}
    \cup {[month |-> Some("April"), year |-> Some(2024), headline |-> Some("old"),
           content |-> Some("c"), hemisphere |-> Some("Northern"), featuredObjects |-> <<>>],
          [month |-> Some("June"), year |-> Some(2025), headline |-> Some("summer"),
           content |-> Some("c"), hemisphere |-> Some("Northern"), featuredObjects |-> <<>>]}

\* datetime.now(): the month name and the year.
GuideClocks == {[month |-> "April", year |-> 2025], [month |-> "June", year |-> 2024]}

GuideMonths == {None, Some(""), Some("April")}
GuideYears == {None, Some(<<>>), Some(<<"2", "0", "2", "5">>), Some(<<"2", "0", "2", "4">>),
               Some(<<"a", "b", "c">>)}
GuideHemispheres == {None, Some("Southern"), Some("both")}

GuideAdd ==
    \E guide_data \in GuideCatalogue :
        /\ guide_current_id < MaxGuides
        /\ create_monthly_guide(guide_data)
        /\ UNCHANGED <<request, upstream, response, effects>>

ApiGetMonthlyGuide ==
    \E month \in GuideMonths, year \in GuideYears, hemisphere \in GuideHemispheres,
       now \in GuideClocks :
        api_get_monthly_guide(month, year, hemisphere, now)

NextGuide ==
    \/ GuideAdd
    \/ ApiGetMonthlyGuide

SpecGuide == Init /\ [][NextGuide]_vars

---------------------------------------------------------------------------
(* services/celestial_objects.py: seed_database, called by run.py before   *)
(* app.run and again by python_server/app.py before the first request.     *)
(* The long texts of the seed records (description, information, imageUrl, *)
(* content) are written as the name of their key, and the degree and       *)
(* minute signs of the coordinates as d and '.                             *)

seed_celestial_objects ==
    <<
     [name |-> Some("Leo Triplet"), type |-> Some("galaxy"),
      description |-> Some("description"),
      coordinates |-> Some("RA: 11h 18m | Dec: +13d 03'"), month |-> Some("April"),
      bestViewingTime |-> Some("9 PM - 3 AM"), imageUrl |-> Some("imageUrl"),
      visibilityRating |-> Some("Good"), information |-> Some("information"),
      constellation |-> Some("Leo"), magnitude |-> Some("9-10"),
      hemisphere |-> Some("Both"), recommendedEyepiece |-> Some("Low power")],
     [name |-> Some("Jupiter"), type |-> Some("planet"),
      description |-> Some("description"), coordinates |-> Some("Varies by date"),
      month |-> Some("August"), bestViewingTime |-> Some("10 PM - 4 AM"),
      imageUrl |-> Some("imageUrl"), visibilityRating |-> Some("Excellent"),
      information |-> Some("information"), constellation |-> Some("Varies by season"),
      magnitude |-> Some("-2.7"), hemisphere |-> Some("Both"),
      recommendedEyepiece |-> Some("Medium power (100-150x)")],
     [name |-> Some("M13 (Great Globular Cluster)"), type |-> Some("star_cluster"),
      description |-> Some("description"),
      coordinates |-> Some("RA: 16h 41m | Dec: +36d 28'"), month |-> Some("June"),
      bestViewingTime |-> Some("11 PM - 2 AM"), imageUrl |-> Some("imageUrl"),
      visibilityRating |-> Some("Good"), information |-> Some("information"),
      constellation |-> Some("Hercules"), magnitude |-> Some("5.8"),
      hemisphere |-> Some("Northern"), recommendedEyepiece |-> Some("Medium power")],
     [name |-> Some("Orion Nebula (M42)"), type |-> Some("nebula"),
      description |-> Some("description"),
      coordinates |-> Some("RA: 05h 35m | Dec: -05d 23'"), month |-> Some("January"),
      bestViewingTime |-> Some("8 PM - 12 AM"), imageUrl |-> Some("imageUrl"),
      visibilityRating |-> Some("Excellent"), information |-> Some("information"),
      constellation |-> Some("Orion"), magnitude |-> Some("4.0"),
      hemisphere |-> Some("Both"), recommendedEyepiece |-> Some("Low power")],
     [name |-> Some("Saturn"), type |-> Some("planet"),
      description |-> Some("description"), coordinates |-> Some("Varies by date"),
      month |-> Some("July"), bestViewingTime |-> Some("10 PM - 3 AM"),
      imageUrl |-> Some("imageUrl"), visibilityRating |-> Some("Excellent"),
      information |-> Some("information"), constellation |-> Some("Varies by season"),
      magnitude |-> Some("0.1"), hemisphere |-> Some("Both"),
      recommendedEyepiece |-> Some("Medium to high power (150-200x)")],
     [name |-> Some("Andromeda Galaxy (M31)"), type |-> Some("galaxy"),
      description |-> Some("description"),
      coordinates |-> Some("RA: 00h 42m | Dec: +41d 16'"), month |-> Some("October"),
      bestViewingTime |-> Some("9 PM - 2 AM"), imageUrl |-> Some("imageUrl"),
      visibilityRating |-> Some("Good"), information |-> Some("information"),
      constellation |-> Some("Andromeda"), magnitude |-> Some("3.4"),
      hemisphere |-> Some("Northern"), recommendedEyepiece |-> Some("Low power")],
     [name |-> Some("Pleiades (M45)"), type |-> Some("star_cluster"),
      description |-> Some("description"),
      coordinates |-> Some("RA: 03h 47m | Dec: +24d 07'"), month |-> Some("November"),
      bestViewingTime |-> Some("8 PM - 1 AM"), imageUrl |-> Some("imageUrl"),
      visibilityRating |-> Some("Excellent"), information |-> Some("information"),
      constellation |-> Some("Taurus"), magnitude |-> Some("1.6"),
      hemisphere |-> Some("Both"),
      recommendedEyepiece |-> Some("Low power or binoculars")],
     [name |-> Some("Whirlpool Galaxy (M51)"), type |-> Some("galaxy"),
      description |-> Some("description"),
      coordinates |-> Some("RA: 13h 29m | Dec: +47d 11'"), month |-> Some("April"),
      bestViewingTime |-> Some("10 PM - 2 AM"), imageUrl |-> Some("imageUrl"),
      visibilityRating |-> Some("Moderate"), information |-> Some("information"),
      constellation |-> Some("Canes Venatici"), magnitude |-> Some("8.4"),
      hemisphere |-> Some("Northern"), recommendedEyepiece |-> Some("Medium power")],
     [name |-> Some("Crab Nebula (M1)"), type |-> Some("nebula"),
      description |-> Some("description"),
      coordinates |-> Some("RA: 05h 34m | Dec: +22d 01'"), month |-> Some("December"),
      bestViewingTime |-> Some("8 PM - 11 PM"), imageUrl |-> Some("imageUrl"),
      visibilityRating |-> Some("Moderate"), information |-> Some("information"),
      constellation |-> Some("Taurus"), magnitude |-> Some("8.4"),
      hemisphere |-> Some("Both"), recommendedEyepiece |-> Some("Medium power")],
     [name |-> Some("Albireo"), type |-> Some("double_star"),
      description |-> Some("description"),
      coordinates |-> Some("RA: 19h 30m | Dec: +27d 57'"), month |-> Some("July"),
      bestViewingTime |-> Some("10 PM - 1 AM"), imageUrl |-> Some("imageUrl"),
      visibilityRating |-> Some("Good"), information |-> Some("information"),
      constellation |-> Some("Cygnus"), magnitude |-> Some("3.1"),
      hemisphere |-> Some("Northern"),
      recommendedEyepiece |-> Some("Medium to high power")]
    >>

seed_monthly_guides ==
    <<
     [month |-> Some("April"), year |-> Some(2025),
      headline |-> Some("Galaxy Season Peaks"), content |-> Some("content"),
      hemisphere |-> Some("Northern"), featuredObjects |-> <<1, 8>>],
     [month |-> Some("June"), year |-> Some(2025),
      headline |-> Some("The Summer Sky Emerges"), content |-> Some("content"),
      hemisphere |-> Some("Northern"), featuredObjects |-> <<3>>],
     [month |-> Some("July"), year |-> Some(2025),
      headline |-> Some("Planets and Double Stars"), content |-> Some("content"),
      hemisphere |-> Some("Northern"), featuredObjects |-> <<5, 10>>],
     [month |-> Some("October"), year |-> Some(2025),
      headline |-> Some("Andromeda Nights"), content |-> Some("content"),
      hemisphere |-> Some("Northern"), featuredObjects |-> <<6>>],
     [month |-> Some("December"), year |-> Some(2025),
      headline |-> Some("Winter's Deep Sky Gems"), content |-> Some("content"),
      hemisphere |-> Some("Northern"), featuredObjects |-> <<7, 9>>]
    >>

seed_telescope_tips ==
    <<
     [title |-> Some("Collimation Guide"), content |-> Some("content"),
      category |-> Some("maintenance"), imageUrl |-> Some("imageUrl")],
     [title |-> Some("Light Pollution Filters"), content |-> Some("content"),
      category |-> Some("equipment"), imageUrl |-> Some("imageUrl")],
     [title |-> Some("Dark Adaptation"), content |-> Some("content"),
      category |-> Some("observing"), imageUrl |-> Some("imageUrl")],
     [title |-> Some("Magnification Tips"), content |-> Some("content"),
      category |-> Some("observing"), imageUrl |-> Some("imageUrl")],
     [title |-> Some("Dew Prevention"), content |-> Some("content"),
      category |-> Some("equipment"), imageUrl |-> Some("imageUrl")]
    >>

\* The record create_celestial_object, create_monthly_guide or
\* create_telescope_tip builds from one element of a seed list.
SeedRecord(kind, id, data) ==
    CASE kind = "object" -> CelestialObject(id, data)
      [] kind = "guide" -> MonthlyGuide(id, data)
      [] kind = "tip" -> TelescopeTip(id, data)

\* for data in datas: storage.create_<kind>(data), on the dict d whose
\* counter stands at current_id.
RECURSIVE CreateEach(_, _, _, _)
CreateEach(kind, d, current_id, datas) ==
    IF datas = <<>>
    THEN d
    ELSE CreateEach(kind,
                    DictSet(d, current_id + 1, SeedRecord(kind, current_id + 1, Head(datas))),
                    current_id + 1, Tail(datas))

\* The ids the counter hands out for count creations in a row.
IdsAfter(current_id, count) == [i \in 1..count |-> current_id + i]

\* The three loops of seed_database, without the check of the store.
seed_all ==
    /\ celestial_objects' =
           CreateEach("object", celestial_objects, object_current_id, seed_celestial_objects)
    /\ object_current_id' = object_current_id + Len(seed_celestial_objects)
    /\ monthly_guides' =
           CreateEach("guide", monthly_guides, guide_current_id, seed_monthly_guides)
    /\ guide_current_id' = guide_current_id + Len(seed_monthly_guides)
    /\ telescope_tips' =
           CreateEach("tip", telescope_tips, tip_current_id, seed_telescope_tips)
    /\ tip_current_id' = tip_current_id + Len(seed_telescope_tips)
    /\ issued' = [issued EXCEPT
           !.object = @ \o IdsAfter(object_current_id, Len(seed_celestial_objects)),
           !.guide = @ \o IdsAfter(guide_current_id, Len(seed_monthly_guides)),
           !.tip = @ \o IdsAfter(tip_current_id, Len(seed_telescope_tips))]
    /\ UNCHANGED <<users, observations, user_current_id, observation_current_id>>

\* A seeding that does not look at the store first.
seed_database_unguarded == seed_all

\* if storage.celestial_objects: return
seed_database ==
    IF celestial_objects # <<>>
    THEN UNCHANGED <<store, issued>>
    ELSE seed_all

SeedDatabase ==
    /\ request' = [op |-> "seed_database"]
    /\ seed_database
    /\ response' = Return(None)
    /\ UNCHANGED <<upstream, effects>>

\* The objects of the store that POST /api/celestial-objects created: the
\* seed list is only ever stored whole, and only into an empty store.
PostedCount ==
    IF monthly_guides = <<>>
    THEN Len(celestial_objects)
    ELSE Len(celestial_objects) - Len(seed_celestial_objects)

\* POST /api/celestial-objects, at most MaxObjects times.
ApiCreateBesideSeed ==
    \E data \in ObjectInputs :
        /\ PostedCount < MaxObjects
        /\ api_create_celestial_object(data)

\* GET /api/celestial-objects/<int:id>: the first and the last seed
\* object, a posted one, and an id nobody has.
ApiGetSeededObject ==
    \E id \in {1, Len(seed_celestial_objects), Len(seed_celestial_objects) + 1,
               Len(seed_celestial_objects) + MaxObjects + 1} :
        api_get_celestial_object(id)

\* POST /api/observations for the first seed object and for the object
\* after the last one, which exists once a client has posted it.
ApiObserveSeeded ==
    \E data \in {[objectId |-> Some(1)],
                 [objectId |-> Some(Len(seed_celestial_objects) + 1)]} :
        /\ observation_current_id < MaxObservations
        /\ api_create_observation(data, 1)

NextSeed ==
    \/ SeedDatabase
    \/ ApiCreateBesideSeed
    \/ ApiGetSeededObject
    \/ ApiObserveSeeded
    \/ ApiDeleteObservation

\* The program as run.py starts it: seeding at any time, any number of
\* times, and the handlers that write to the store.
SpecSeed == Init /\ [][NextSeed]_vars

---------------------------------------------------------------------------
(* data/storage.py: two create calls of the same entity type in two        *)
(* threads of the server that run.py starts.  The calls in flight are kept *)
(* in request: for each call its payload, the statement it executes next   *)
(* (pc), its local variable id, and the record it returned.  A statement   *)
(* of the method is one step; MemStorage takes no lock.                    *)

\* At most MaxRounds pairs of concurrent calls are made.
MaxRounds == 2

Threads == {1, 2}

\* The payloads of the two calls, by entity type.
RacePayloads(kind) == IF kind = "object" THEN ObjectInputs ELSE ObservationInputs

\* self.object_current_id or self.observation_current_id
CounterOf(kind) == IF kind = "object" THEN object_current_id ELSE observation_current_id

\* self.celestial_objects or self.observations
DictOf(kind) == IF kind = "object" THEN celestial_objects ELSE observations

\* The record the method builds between reading id and the insertion.
BuiltRecord(kind, id, data) ==
    IF kind = "object" THEN CelestialObject(id, data) ELSE Observation(id, data, 1)

InFlight == request.op = "concurrent create"

AllReturned == InFlight /\ \A t \in Threads : request.calls[t].pc = "done"

\* Two threads enter create_celestial_object, or both enter
\* create_observation, each with its own payload.
StartConcurrentCreates ==
    \E kind \in {"object", "observation"} :
        \E d1 \in RacePayloads(kind), d2 \in RacePayloads(kind) :
            /\ ~InFlight \/ AllReturned
            /\ Len(issued.object) + Len(issued.observation) < 2 * MaxRounds
            /\ request' = [op |-> "concurrent create", kind |-> kind,
                           calls |-> [t \in Threads |->
                               [pc |-> "increment", id |-> 0,
                                data |-> IF t = 1 THEN d1 ELSE d2,
                                returned |-> None]]]
            /\ UNCHANGED <<store, issued, upstream, response, effects>>

\* self.<type>_current_id += 1
ThreadIncrement(t) ==
    /\ InFlight
    /\ request.calls[t].pc = "increment"
    /\ IF request.kind = "object"
       THEN /\ object_current_id' = object_current_id + 1
            /\ UNCHANGED observation_current_id
       ELSE /\ observation_current_id' = observation_current_id + 1
            /\ UNCHANGED object_current_id
    /\ request' = [request EXCEPT !.calls[t].pc = "read"]
    /\ UNCHANGED <<users, celestial_objects, observations, monthly_guides,
                   telescope_tips, user_current_id, guide_current_id, tip_current_id,
                   issued, upstream, response, effects>>

\* id = self.<type>_current_id
ThreadReadId(t) ==
    /\ InFlight
    /\ request.calls[t].pc = "read"
    /\ request' = [request EXCEPT !.calls[t].pc = "insert",
                                  !.calls[t].id = CounterOf(request.kind)]
    /\ Issue(request.kind, CounterOf(request.kind))
    /\ UNCHANGED <<store, upstream, response, effects>>

\* self.<dict>[id] = record; return record
ThreadInsert(t) ==
    /\ InFlight
    /\ request.calls[t].pc = "insert"
    /\ LET call == request.calls[t]
           record == BuiltRecord(request.kind, call.id, call.data)
       IN  /\ IF request.kind = "object"
              THEN /\ celestial_objects' = DictSet(celestial_objects, call.id, record)
                   /\ UNCHANGED observations
              ELSE /\ observations' = DictSet(observations, call.id, record)
                   /\ UNCHANGED celestial_objects
           /\ request' = [request EXCEPT !.calls[t].pc = "done",
                                         !.calls[t].returned = Some(record)]
    /\ UNCHANGED <<users, monthly_guides, telescope_tips, user_current_id,
                   object_current_id, observation_current_id, guide_current_id,
                   tip_current_id, issued, upstream, response, effects>>

Increment == \E t \in Threads : ThreadIncrement(t)
ReadId == \E t \in Threads : ThreadReadId(t)
Insert == \E t \in Threads : ThreadInsert(t)

NextRace ==
    \/ StartConcurrentCreates
    \/ Increment
    \/ ReadId
    \/ Insert

SpecRace == Init /\ [][NextRace]_vars

---------------------------------------------------------------------------
(* C1.  For every entity type, the ids create_* handed out so far are      *)
(* positive and strictly increasing in creation order (hence pairwise      *)
(* distinct, and an id freed by delete_observation is never handed out     *)
(* again); every stored record carries an id that was handed out, and no   *)
(* two stored records of a type share an id.                               *)

StrictlyIncreasing(seq) ==
    /\ \A i \in DOMAIN seq : seq[i] > 0
    /\ \A i, j \in DOMAIN seq : i < j => seq[i] < seq[j]

Handed(d, type) ==
    /\ \A i \in DOMAIN d : \E k \in DOMAIN issued[type] : issued[type][k] = d[i].id
    /\ \A i, j \in DOMAIN d : i # j => d[i].id # d[j].id

C1_IdsUniqueIncreasing ==
    /\ \A type \in DOMAIN issued : StrictlyIncreasing(issued[type])
    /\ Handed(users, "user")
    /\ Handed(celestial_objects, "object")
    /\ Handed(observations, "observation")
    /\ Handed(monthly_guides, "guide")
    /\ Handed(telescope_tips, "tip")

\* An observation was created, deleted, and another one created afterwards:
\* the store holds the later id only, and every type has handed out ids.
C1_Witness ==
    /\ Len(issued.observation) = 2
    /\ Len(observations) = 1
    /\ observations[1].id = 2
    /\ \A type \in DOMAIN issued : Len(issued[type]) >= 1

---------------------------------------------------------------------------
(* C2.  POST /api/observations whose objectId does not name a stored       *)
(* celestial object answers 404 and leaves the observation map and the     *)
(* observation id counter unchanged; and after every step of the HTTP      *)
(* surface every stored observation's objectId names a stored celestial    *)
(* object.                                                                 *)

ObjectIdsResolve(obs_list, objs) ==
    \A i \in DOMAIN obs_list : DictGet(objs, obs_list[i].object_id) # None

C2_PostUnknownObject ==
    [][ /\ ( /\ request'.op = "POST /api/observations"
             /\ "objectId" \in DOMAIN request'.data
             /\ DictGet(celestial_objects, request'.data["objectId"]) = None )
           => ( /\ response'.status = 404
                /\ observations' = observations
                /\ observation_current_id' = observation_current_id )
        /\ ObjectIdsResolve(observations', celestial_objects')
      ]_vars

\* An unknown object was refused while the store already held an observation
\* of an existing object.
C2_Witness ==
    /\ request.op = "POST /api/observations"
    /\ "objectId" \in DOMAIN request.data
    /\ get_celestial_object(request.data["objectId"]) = None
    /\ response.status = 404
    /\ observations # <<>>
    /\ ObjectIdsResolve(observations, celestial_objects)

---------------------------------------------------------------------------
(* C3.  PATCH /api/observations/{id} on a stored observation owned by user *)
(* 1 answers 200 and changes exactly those of isObserved, observationNotes *)
(* and plannedDate that are keys of the body, each to the supplied value;  *)
(* the fields not supplied, id, userId, objectId and dateAdded, every      *)
(* other observation and the rest of the store are unchanged.              *)

Supplied(json, key, old) == IF key \in DOMAIN json THEN json[key] ELSE old

C3_PatchFrame ==
    [][ ( /\ request'.op = "PATCH /api/observations/id"
          /\ DictHas(observations, request'.id)
          /\ DictGet(observations, Some(request'.id))[1].user_id = Some(1) )
        => LET id == request'.id
               json == request'.json
               old == DictGet(observations, Some(id))[1]
               new == DictGet(observations', Some(id))[1]
           IN  /\ response'.status = 200
               /\ DictHas(observations', id)
               /\ new.is_observed = Supplied(json, "isObserved", old.is_observed)
               /\ new.observation_notes = Supplied(json, "observationNotes", old.observation_notes)
               /\ new.planned_date = Supplied(json, "plannedDate", old.planned_date)
               /\ new.id = old.id
               /\ new.user_id = old.user_id
               /\ new.object_id = old.object_id
               /\ new.date_added = old.date_added
               /\ DOMAIN new = DOMAIN old
               /\ Len(observations') = Len(observations)
               /\ \A i \in DOMAIN observations :
                      observations[i].id # id => observations'[i] = observations[i]
               /\ UNCHANGED <<users, celestial_objects, monthly_guides, telescope_tips,
                              user_current_id, object_current_id, observation_current_id,
                              guide_current_id, tip_current_id>>
      ]_vars

\* A PATCH with two of the three keys has acted on an observation whose third
\* field had been set by an earlier PATCH, next to another stored observation.
C3_Witness ==
    /\ request.op = "PATCH /api/observations/id"
    /\ response.status = 200
    /\ DOMAIN request.json = {"observationNotes", "plannedDate"}
    /\ Len(observations) = 2
    /\ LET new == get_observation(Some(request.id))[1]
       IN  /\ new.is_observed = Some(TRUE)
           /\ new.observation_notes = Some("clear sky")
           /\ new.planned_date = Some("2025-07-01")

---------------------------------------------------------------------------
(* C4.  PATCH or DELETE /api/observations/{id} on a stored observation     *)
(* whose userId is not 1 answers 403 and leaves the store unchanged.       *)

C4_ForeignObservationRefused ==
    [][ ( /\ request'.op \in {"PATCH /api/observations/id", "DELETE /api/observations/id"}
          /\ DictHas(observations, request'.id)
          /\ DictGet(observations, Some(request'.id))[1].user_id # Some(1) )
        => ( /\ response'.status = 403
             /\ UNCHANGED store )
      ]_vars

\* A DELETE of another user's observation was refused and the observation is
\* still stored.
C4_Witness ==
    /\ request.op = "DELETE /api/observations/id"
    /\ response.status = 403
    /\ DictHas(observations, request.id)
    /\ get_observation(Some(request.id))[1].user_id = Some(2)

---------------------------------------------------------------------------
(* Claims about the filter are stated on the answer to the last query:     *)
(* request holds its arguments, response.body the list returned, and the   *)
(* catalogue is the one the query ran on (a query changes nothing).        *)

IsQuery == request.op = "GET /api/celestial-objects"

\* The projections of all stored objects, in store order.
AllObjects == MapSeq(CelestialObjectToDict, Values(celestial_objects))

InList(d, list) == \E i \in DOMAIN list : list[i] = d

(* C5.  A query with hemisphere "both" and no other filter returns every   *)
(* stored object, whatever the object's own hemisphere.                    *)
C5_BothIsWildcard ==
    ( /\ IsQuery
      /\ request.hemisphere = Some("both")
      /\ ~Truthy(request.type)
      /\ ~Truthy(request.month) )
    => response.body = AllObjects

(* C6.  An object stored with hemisphere "both" or "Both" that is in the   *)
(* answer to the query without its hemisphere argument is in the answer to *)
(* the query for every non-empty hemisphere argument.                      *)
C6_StoredBothPasses ==
    ( IsQuery /\ Truthy(request.hemisphere) )
    => \A i \in DOMAIN AllObjects :
           ( /\ AllObjects[i].hemisphere \in {Some("both"), Some("Both")}
             /\ InList(AllObjects[i],
                       filter_celestial_objects(request.type, request.month, None)) )
           => InList(AllObjects[i], response.body)

(* C7.  An object with no month that is in the answer to the query without *)
(* its month argument is in the answer for every month argument, and an    *)
(* object with no hemisphere that is in the answer to the query without    *)
(* its hemisphere argument is in the answer for every hemisphere argument. *)
C7_UnsetPassesThrough ==
    IsQuery
    => \A i \in DOMAIN AllObjects :
           /\ ( /\ AllObjects[i].month = None
                /\ InList(AllObjects[i],
                          filter_celestial_objects(request.type, None, request.hemisphere)) )
              => InList(AllObjects[i], response.body)
           /\ ( /\ AllObjects[i].hemisphere = None
                /\ InList(AllObjects[i],
                          filter_celestial_objects(request.type, request.month, None)) )
              => InList(AllObjects[i], response.body)

(* C8.  The answer to a query is the store-ordered list of the objects     *)
(* that are in the answer to each of its three arguments asked alone; the  *)
(* type argument alone selects the objects of exactly that type; an absent *)
(* or empty argument removes nothing, so with all three absent or empty    *)
(* the answer is the full list; and a query does not change the store.     *)
C8_FiltersComposeAsAnd ==
    [][ request'.op = "GET /api/celestial-objects"
        => LET all == MapSeq(CelestialObjectToDict, Values(celestial_objects))
               t == request'.type
               m == request'.month
               h == request'.hemisphere
               alone_t == filter_celestial_objects(t, None, None)
               alone_m == filter_celestial_objects(None, m, None)
               alone_h == filter_celestial_objects(None, None, h)
           IN  /\ UNCHANGED store
               /\ response'.status = 200
               /\ response'.body =
                      SelectSeq(all, LAMBDA d : /\ InList(d, alone_t)
                                                /\ InList(d, alone_m)
                                                /\ InList(d, alone_h))
               /\ alone_t = IF Truthy(t) THEN SelectSeq(all, LAMBDA d : d.type = t) ELSE all
               /\ ~Truthy(m) => alone_m = all
               /\ ~Truthy(h) => alone_h = all
               /\ (~Truthy(t) /\ ~Truthy(m) /\ ~Truthy(h)) => response'.body = all
      ]_vars

\* A query with all three arguments answered with the second of two stored
\* objects only: the first one fails the type argument.
C8_Witness ==
    /\ IsQuery
    /\ Truthy(request.type) /\ Truthy(request.month) /\ Truthy(request.hemisphere)
    /\ Len(celestial_objects) = 2
    /\ response.body = <<AllObjects[2]>>
    /\ AllObjects[1].month = request.month
    /\ AllObjects[1].type # request.type

---------------------------------------------------------------------------
(* Claims about GET /api/apod of server/app.py are stated on the answer to *)
(* the last request: upstream holds what the NASA API did.                 *)

IsApod == request.op = "GET /api/apod" /\ request.app = "server"

(* C9.  When the upstream API answers with an error status s, the endpoint *)
(* answers 400 with the invalid-parameters message if s = 400, 404 with    *)
(* the no-data message if s = 404, 429 with the rate-limit message if      *)
(* s = 429, and for any other 4xx/5xx s the generic 'NASA API error'       *)
(* message with status s.                                                  *)
C9_UpstreamStatusSurfaced ==
    ( /\ IsApod
      /\ upstream.kind = "response"
      /\ IsErrorStatus(upstream.status) )
    => /\ response.status = upstream.status
       /\ upstream.status = 400 =>
              response.message = "Invalid request parameters. Please check your date format (YYYY-MM-DD)."
       /\ upstream.status = 404 =>
              response.message = "No APOD data found for the specified date. Please try a different date."
       /\ upstream.status = 429 =>
              response.message = "NASA API rate limit exceeded. Please try again later or use a personal API key."
       /\ upstream.status \notin {400, 404, 429} => response.message = "NASA API error"

ConnectMessage ==
    "Unable to connect to NASA API. Please check your internet connection and try again."

TimeoutMessage == "NASA API request timed out. Please try again later."

(* C10 as claimed.  The endpoint answers 503 when the upstream call fails  *)
(* to connect and 504 whenever it times out, a timeout while connecting    *)
(* included; no upstream failure leaves the handler unhandled.             *)
C10_AnyTimeoutIs504 ==
    IsApod
    => /\ response # Unhandled
       /\ upstream.kind = "exception" =>
              /\ "Timeout" \in Bases(upstream.class) =>
                     response.status = 504 /\ response.message = TimeoutMessage
              /\ ( "ConnectionError" \in Bases(upstream.class)
                   /\ "Timeout" \notin Bases(upstream.class) ) =>
                     response.status = 503 /\ response.message = ConnectMessage

(* C10 as amended.  The endpoint answers 503 when the upstream call fails  *)
(* to connect, a timeout while connecting included, and 504 when it times  *)
(* out after the connection was made; no upstream failure leaves the       *)
(* handler unhandled.                                                      *)
C10_ConnectFailure503ReadTimeout504 ==
    IsApod
    => /\ response # Unhandled
       /\ upstream.kind = "exception" =>
              /\ "ConnectionError" \in Bases(upstream.class) =>
                     response.status = 503 /\ response.message = ConnectMessage
              /\ ( "Timeout" \in Bases(upstream.class)
                   /\ "ConnectionError" \notin Bases(upstream.class) ) =>
                     response.status = 504 /\ response.message = TimeoutMessage

\* The upstream call timed out while connecting and the endpoint answered 503.
C10_Witness ==
    /\ IsApod
    /\ upstream.kind = "exception"
    /\ upstream.class = "ConnectTimeout"
    /\ response.status = 503

---------------------------------------------------------------------------
\* The last call was one of the APOD client: fetch_apod or fetch_apod_range
\* of either application, or the scraping get_apod.
IsApodClientCall ==
    request.op \in {"nasa_api.fetch_apod", "nasa_api.fetch_apod_range", "fetch_apod.get_apod"}

(* C11.  Every outbound HTTP request a call of the APOD client makes       *)
(* carries a timeout, and no such call stays blocked on an upstream that   *)
(* never answers.                                                          *)
C11_EveryApodRequestHasTimeout ==
    IsApodClientCall
    => /\ \A i \in DOMAIN effects :
              effects[i].kind = "get" => effects[i].timeout # None
       /\ response # Blocked

---------------------------------------------------------------------------
(* Claims about get_apod_range are stated on the answer to the last call:  *)
(* request holds the two date strings, upstream the site, effects the page *)
(* requests made and response what the call returned.                      *)

IsRange == request.op = "fetch_apod.get_apod_range" /\ "kind" \in DOMAIN response

\* Both arguments are dates of the calendar in YYYY-MM-DD form.
RangeIsValid == IsDateString(request.start_date) /\ IsDateString(request.end_date)

\* The number of days from the start date to the end date, both included.
RangeSpan == ToOrdinal(StrpTime(request.end_date)) - ToOrdinal(StrpTime(request.start_date)) + 1

\* The call returned an error entry with this message.
ReturnedError(message) ==
    /\ response.kind = "return"
    /\ "value" \in DOMAIN response
    /\ response.value.error
    /\ response.value.message = message

(* C12.  get_apod_range with two valid dates returns an error entry and    *)
(* requests no page when the end is before the start ('End date cannot be  *)
(* before start date') and when the inclusive day count exceeds 30 (a      *)
(* message that names the maximum, 30); with a count from 1 (start = end)  *)
(* to 30 it requests pages, the first of which is the start day's.  In     *)
(* particular 2024-02-28..2024-03-28 (30 days) is accepted and             *)
(* 2024-02-28..2024-03-29 (31 days) is rejected.                           *)
C12_RangeValidation ==
    (IsRange /\ RangeIsValid)
    => /\ RangeSpan < 1 =>
              /\ effects = <<>>
              /\ ReturnedError("End date cannot be before start date")
       /\ RangeSpan > 30 =>
              /\ effects = <<>>
              /\ ReturnedError("Date range too large. Maximum range is {max_days} days.")
              /\ response.value.max_days = 30
       /\ RangeSpan \in 1..30 =>
              /\ Len(effects) >= 1
              /\ effects[1].url = ApodUrl(Some(request.start_date), FALSE, <<>>)
       /\ request.start_date = Date_2024_02_28 =>
              /\ request.end_date = Date_2024_02_28 => Len(effects) = 1
              /\ request.end_date = Date_2024_03_28 => Len(effects) >= 1
              /\ request.end_date = Date_2024_03_29 => effects = <<>>

\* A range of 31 days was refused without a page request.
C12_Witness ==
    /\ IsRange
    /\ request.start_date = Date_2024_02_28
    /\ request.end_date = Date_2024_03_29
    /\ effects = <<>>
    /\ ReturnedError("Date range too large. Maximum range is {max_days} days.")

\* The date string of the i-th day of the requested range.
RangeDay(i) == StrfTime(DayAfter(StrpTime(request.start_date), i - 1))

\* What get_apod does for the i-th day of the range on its own.
RangeDayFetch(i) == scraper_get_apod(Some(RangeDay(i)), FALSE, upstream)

\* The fetch of the i-th day did not fail: it returned a record.
RangeDayOk(i) ==
    /\ RangeDayFetch(i).did.kind = "return"
    /\ "error" \notin DOMAIN RangeDayFetch(i).did.value

RECURSIVE RecordsUpTo(_)
\* The records of the days 1..n whose fetch did not fail, in order.
RecordsUpTo(n) ==
    IF n = 0 THEN <<>>
    ELSE RecordsUpTo(n - 1)
         \o (IF RangeDayOk(n) THEN <<RangeDayFetch(n).did.value>> ELSE <<>>)

(* C13.  For an accepted range (valid dates, 1 to 30 days) get_apod_range  *)
(* requests the page of every day from start to end once, in ascending     *)
(* order, and returns the list of the records of exactly the days whose    *)
(* own fetch did not fail, in that order, whatever the failure of the      *)
(* other days was.                                                         *)
C13_RangeSkipsFailedDays ==
    (IsRange /\ RangeIsValid /\ RangeSpan \in 1..30)
    => /\ effects = [i \in 1..RangeSpan |-> RangeDayFetch(i).effects[1]]
       /\ response.kind = "return"
       /\ "items" \in DOMAIN response
       /\ response.items = RecordsUpTo(RangeSpan)

\* C13 for the failures the `except RequestException` clause and the
\* no-media branch of get_apod turn into an error entry.
C13_HoldsForReportedFailures ==
    ( /\ IsRange /\ RangeIsValid /\ RangeSpan \in 1..30
      /\ \/ upstream.failure.kind = "exception"
         \/ /\ upstream.failure.kind = "response"
            /\ IsErrorStatus(upstream.failure.status) \/ upstream.failure.page = PageEmpty )
    => /\ effects = [i \in 1..RangeSpan |-> RangeDayFetch(i).effects[1]]
       /\ response.kind = "return"
       /\ "items" \in DOMAIN response
       /\ response.items = RecordsUpTo(RangeSpan)

(* Claims about the scraping get_apod are stated on the answer to the last *)
(* call: request holds the arguments, upstream the site and the clock,     *)
(* effects the page request and response what the call did.                *)

IsScrape == request.op = "fetch_apod.get_apod"

\* What the site did with the page request of the last call.
Scraped == PageOutcome(upstream, effects[1].url)

(* C14.  The scraping get_apod never raises: a page with neither an image  *)
(* nor a video gives the error entry 'Could not find image or video in     *)
(* APOD page', and a failure of the request or of the parsing of the page  *)
(* gives an error entry {error: true, message}.                            *)
C14_ScraperNeverRaises ==
    IsScrape
    => /\ response.kind # "raise"
       /\ ( Scraped.kind = "response" /\ ~IsErrorStatus(Scraped.status)
            /\ Scraped.page = PageEmpty )
          => ReturnedError("Could not find image or video in APOD page")
       /\ ( \/ Scraped.kind = "exception"
            \/ Scraped.kind = "response" /\ IsErrorStatus(Scraped.status)
            \/ Scraped.kind = "response" /\ ~IsErrorStatus(Scraped.status)
               /\ ~Scraped.page.parses )
          => /\ response.kind = "return"
             /\ response.value.error
             /\ "message" \in DOMAIN response.value

(* C15.  For a date D in YYYY-MM-DD form with a year from 1950 to 2049, a  *)
(* call get_apod(D) that returns a record requested the page apYYMMDD.html *)
(* of D, and the record's date is D, whatever the current day is.          *)
C15_DateRecoveredFromUrl ==
    ( /\ IsScrape
      /\ request.date # None
      /\ IsDateString(request.date[1])
      /\ StrpTime(request.date[1]).year \in 1950..2049
      /\ response.kind = "return"
      /\ "error" \notin DOMAIN response.value )
    => /\ StartsWith(effects[1].url,
                     base_url \o <<"a", "p">> \o Slice(request.date[1], 2, 4)
                     \o Slice(request.date[1], 5, 7) \o Slice(request.date[1], 8, 10)
                     \o dot_html)
       /\ response.value.date = request.date[1]

---------------------------------------------------------------------------
(* Claims about make_api_request are stated on the last call: upstream is  *)
(* the server, effects the requests and the waits of the call in order,    *)
(* response what it returned.                                              *)

IsRetryCall == request.op = "nasa_images.make_api_request"

\* The requests, and the waits, of the last call.
Requests == SelectSeq(effects, LAMBDA e : e.kind = "get")
Waits == SelectSeq(effects, LAMBDA e : e.kind = "sleep")

\* The number of requests the server fails before it answers.
Failing == Len(upstream.failures)

(* C16.  make_api_request makes at most 3 requests and does not raise: if  *)
(* fewer than 3 requests fail before one succeeds it returns the parsed    *)
(* body of that first success and makes no request after it; if the first  *)
(* 3 requests fail it returns None after exactly 3 requests.               *)
C16_AtMostThreeAttempts ==
    IsRetryCall
    => /\ Len(Requests) <= 3
       /\ response.kind = "return"
       /\ Failing < 3 =>
              /\ response.value = Some(upstream.body)
              /\ Len(Requests) = Failing + 1
              /\ effects[Len(effects)].kind = "get"
       /\ Failing >= 3 =>
              /\ response.value = None
              /\ Len(Requests) = 3

\* Three requests failed, one of them with an HTTP error status, and the
\* call returned None.
C16_Witness ==
    /\ IsRetryCall
    /\ Failing = 3
    /\ \E i \in 1..3 : upstream.failures[i].kind = "response"
                       /\ upstream.failures[i].status = 503
    /\ Len(Requests) = 3
    /\ response = Return(None)

(* C17.  In make_api_request every wait stands between a failed request    *)
(* and the next request; the first wait is 1 second and the second is 2    *)
(* seconds; there is one wait per failed request that is followed by       *)
(* another request, hence none after the third failure and none after a    *)
(* success: the call ends with a request.                                  *)
C17_BackoffBetweenAttempts ==
    IsRetryCall
    => /\ \A i \in DOMAIN effects :
              effects[i].kind = "sleep"
              => /\ i > 1 /\ effects[i - 1].kind = "get"
                 /\ i < Len(effects) /\ effects[i + 1].kind = "get"
       /\ Len(Waits) = Len(Requests) - 1
       /\ Len(Waits) = (IF Failing < 2 THEN Failing ELSE 2)
       /\ Len(Waits) >= 1 => Waits[1].seconds = 1
       /\ Len(Waits) >= 2 => Waits[2].seconds = 2
       /\ effects[Len(effects)].kind = "get"

\* All three requests failed: the call waited 1 second, then 2 seconds,
\* and returned after the third request without a wait.
C17_Witness ==
    /\ IsRetryCall
    /\ Failing = 3
    /\ Len(effects) = 5
    /\ effects[2] = Sleep(1)
    /\ effects[4] = Sleep(2)
    /\ effects[5].kind = "get"
    /\ response = Return(None)

---------------------------------------------------------------------------
(* Claims about extract_best_image_url are stated on the last call:        *)
(* upstream is the asset server, whose body is the manifest, and response  *)
(* the url returned.                                                       *)

IsExtract == request.op = "nasa_images.extract_best_image_url"

\* The links of the manifest, in order ('' for an item without a link).
Links ==
    [i \in DOMAIN upstream.body.collection.items |->
        GetDefault(upstream.body.collection.items[i], "href", <<>>)]

\* The link ends in .jpg, .jpeg or .png.
HasImageExtension(link) ==
    \E ext \in {<<".", "j", "p", "g">>, <<".", "j", "p", "e", "g">>, <<".", "p", "n", "g">>} :
        Len(link) >= Len(ext) /\ SubSeq(link, Len(link) - Len(ext) + 1, Len(link)) = ext

\* The link contains "large" in any case, "1024" or "2048".
NamesLargerSize(link) ==
    \/ \E i \in 1..(Len(link) - 4) :
           Lower(SubSeq(link, i, i + 4)) = <<"l", "a", "r", "g", "e">>
    \/ \E i \in 1..(Len(link) - 3) :
           SubSeq(link, i, i + 3) \in {<<"1", "0", "2", "4">>, <<"2", "0", "4", "8">>}

(* C18.  extract_best_image_url returns the first link of the manifest     *)
(* that has an image extension and names a larger size, if the manifest    *)
(* has one anywhere; otherwise the first link with an image extension;     *)
(* otherwise None.  The url returned always has an image extension.        *)
C18_BestImageLink ==
    IsExtract
    => LET images == {i \in DOMAIN Links : HasImageExtension(Links[i])}
           larger == {i \in images : NamesLargerSize(Links[i])}
       IN  /\ response.value =
                  IF larger # {} THEN Some(Links[Least(larger)])
                  ELSE IF images # {} THEN Some(Links[Least(images)])
                  ELSE None
           /\ response.value # None => HasImageExtension(response.value[1])

\* A manifest whose first image link names no larger size and whose later
\* link does: the later one was returned.
C18_Witness ==
    /\ IsExtract
    /\ Len(Links) >= 2
    /\ HasImageExtension(Links[1]) /\ ~NamesLargerSize(Links[1])
    /\ \E i \in 2..Len(Links) :
           /\ HasImageExtension(Links[i]) /\ NamesLargerSize(Links[i])
           /\ response.value = Some(Links[i])

(* Claims about search_celestial_object_image are stated on the last call: *)
(* upstream is what the NASA search, the asset server and Wikipedia do,    *)
(* effects the requests and waits of the call, response what it did.       *)

IsResolve == request.op = "nasa_images.search_celestial_object_image"

\* The call returned an image found through NASA.
NasaSucceeded ==
    /\ response.kind = "return"
    /\ response.value.success
    /\ response.value.source = "nasa"

\* The call made a request to Wikipedia.
WikipediaQueried ==
    \E i \in DOMAIN effects :
        effects[i].kind = "get" /\ effects[i].url = wikipedia_endpoint

\* Wikipedia answers the request with a page that has a thumbnail.
WikipediaHasThumbnail ==
    /\ upstream.wiki.kind = "response"
    /\ upstream.wiki.status = 200
    /\ upstream.wiki.json
    /\ "query" \in DOMAIN upstream.wiki.body
    /\ \E i \in DOMAIN upstream.wiki.body.query.pages :
           LET page == upstream.wiki.body.query.pages[i]
           IN  /\ "thumbnail" \in DOMAIN page
               /\ "source" \in DOMAIN page.thumbnail
               /\ page.thumbnail.source # <<>>

(* C19.  Whenever a call of search_celestial_object_image does not return  *)
(* an image found through NASA, whatever the reason, it has queried        *)
(* Wikipedia; and if Wikipedia then answers with a thumbnail the call      *)
(* returns success with source "wikipedia".                                *)
C19_WikipediaFallback ==
    (IsResolve /\ ~NasaSucceeded)
    => /\ WikipediaQueried
       /\ WikipediaHasThumbnail =>
              /\ response.kind = "return"
              /\ response.value.success
              /\ response.value.source = "wikipedia"

(* C20.  search_celestial_object_image never raises: it returns a result   *)
(* that carries the object's name, in which success is true exactly when   *)
(* image_url is not null; a success has source "nasa" or "wikipedia" (the  *)
(* latter only when Wikipedia has a thumbnail, the former only with a     *)
(* link of the asset manifest as image_url), and every other               *)
(* result, an unexpected exception included, is {success: false,           *)
(* image_url: null} with an error message.                                 *)
C20_StructuredResult ==
    IsResolve
    => /\ response.kind = "return"
       /\ response.value.object_name = request.object_name
       /\ response.value.success <=> response.value.image_url # None
       /\ response.value.success =>
              /\ response.value.image_url[1] # <<>>
              /\ response.value.source \in {"nasa", "wikipedia"}
              /\ response.value.source = "wikipedia" => WikipediaHasThumbnail
              /\ response.value.source = "nasa" =>
                     \E i \in DOMAIN upstream.asset.body.collection.items :
                         upstream.asset.body.collection.items[i].href
                             = response.value.image_url[1]
       /\ ~response.value.success =>
              /\ response.value.image_url = None
              /\ "error" \in DOMAIN response.value

\* The search answered without the structure of a search answer: the call
\* returned the structured failure of an unexpected exception.
C20_Witness ==
    /\ IsResolve
    /\ upstream.search = Answers([reason |-> "no"])
    /\ response.kind = "return"
    /\ ~response.value.success
    /\ response.value.error = "Unexpected error"
    /\ response.value.image_url = None

\* The search is answered within the three attempts, and its first item
\* names an asset.
SearchNamesAsset ==
    /\ Len(upstream.search.failures) < max_retries
    /\ "collection" \in DOMAIN upstream.search.body
    /\ "items" \in DOMAIN upstream.search.body.collection
    /\ upstream.search.body.collection.items # <<>>
    /\ "data" \in DOMAIN upstream.search.body.collection.items[1]
    /\ upstream.search.body.collection.items[1].data # <<>>
    /\ "nasa_id" \in DOMAIN upstream.search.body.collection.items[1].data[1]

\* The links of the manifest the asset server answers with within the three
\* attempts that end in .jpg, .jpeg or .png.
UsableLinks ==
    IF /\ Len(upstream.asset.failures) < max_retries
       /\ "collection" \in DOMAIN upstream.asset.body
    THEN {upstream.asset.body.collection.items[i].href :
             i \in {j \in DOMAIN upstream.asset.body.collection.items :
                       /\ "href" \in DOMAIN upstream.asset.body.collection.items[j]
                       /\ HasImageExtension(upstream.asset.body.collection.items[j].href)}}
    ELSE {}

\* dict.get(key, '') of the first data entry of the first search item.
FirstItemField(key) ==
    IF key \in DOMAIN upstream.search.body.collection.items[1].data[1]
    THEN upstream.search.body.collection.items[1].data[1][key]
    ELSE ""

(* C21.  When the NASA search names an asset and the asset manifest holds   *)
(* a link to an image, search_celestial_object_image returns success with  *)
(* source "nasa", a link of the manifest as image_url and the metadata      *)
(* title, description, date_created, center and nasa_id of the first       *)
(* search item (the empty string for a key it lacks), and it makes no      *)
(* request to Wikipedia.                                                   *)
C21_NasaResultSkipsWikipedia ==
    (IsResolve /\ SearchNamesAsset /\ UsableLinks # {})
    => /\ NasaSucceeded
       /\ response.value.image_url # None
       /\ response.value.image_url[1] \in UsableLinks
       /\ response.value.metadata =
              [title |-> FirstItemField("title"),
               description |-> FirstItemField("description"),
               date_created |-> FirstItemField("date_created"),
               center |-> FirstItemField("center"),
               nasa_id |-> FirstItemField("nasa_id")]
       /\ ~WikipediaQueried

\* A search with two items and a manifest with an image, with Wikipedia
\* holding a thumbnail too: the result is NASA's, without a Wikipedia request.
C21_Witness ==
    /\ IsResolve
    /\ upstream.search.body = SearchHits
    /\ UsableLinks # {}
    /\ WikipediaHasThumbnail
    /\ NasaSucceeded
    /\ response.value.metadata.center = "JPL"
    /\ ~WikipediaQueried

(* Claims about POST /api/celestial-objects and the GET of one object are  *)
(* stated on the steps of the two handlers.                                *)

\* The value POST /api/celestial-objects stores for key: the one supplied,
\* else default.
SuppliedOr(data, key, default) == IF key \in DOMAIN data THEN data[key] ELSE default

\* A POST /api/celestial-objects has stored an object in this step.
PostedObject ==
    /\ request'.op = "POST /api/celestial-objects"
    /\ object_current_id' # object_current_id

(* C22.  POST /api/celestial-objects answers 201 with the record it stores  *)
(* under a new id: visibilityRating "Custom", information "Custom          *)
(* celestial object", the placeholder imageUrl and "Not specified" for     *)
(* constellation, magnitude and recommendedEyepiece exactly for the keys   *)
(* absent from the body, and the supplied value (null included) for every  *)
(* key present.  No step changes or removes a stored object, and GET       *)
(* /api/celestial-objects/{id} of a stored id answers 200 with that        *)
(* object's record, so the GET of the returned id yields the record the    *)
(* POST returned, also after further creates.                              *)
C22_PostDefaultsAndReadBack ==
    [][ /\ PostedObject =>
               LET data == request'.data
                   rec == response'.body[1]
               IN  /\ response'.status = 201
                   /\ ~DictHas(celestial_objects, rec.id)
                   /\ DictGet(celestial_objects', Some(rec.id)) # None
                   /\ CelestialObjectToDict(DictGet(celestial_objects', Some(rec.id))[1]) = rec
                   /\ rec.visibilityRating = SuppliedOr(data, "visibilityRating", Some("Custom"))
                   /\ rec.information
                          = SuppliedOr(data, "information", Some("Custom celestial object"))
                   /\ rec.imageUrl
                          = SuppliedOr(data, "imageUrl",
                                Some("https://images.unsplash.com/photo-1462331940025-496dfbfc7564?auto=format&fit=crop&w=800&h=500"))
                   /\ rec.constellation = SuppliedOr(data, "constellation", Some("Not specified"))
                   /\ rec.magnitude = SuppliedOr(data, "magnitude", Some("Not specified"))
                   /\ rec.recommendedEyepiece
                          = SuppliedOr(data, "recommendedEyepiece", Some("Not specified"))
                   /\ \A key \in {"name", "type", "description", "coordinates", "month",
                                  "bestViewingTime", "hemisphere"} :
                          rec[key] = SuppliedOr(data, key, None)
        /\ Len(celestial_objects') >= Len(celestial_objects)
        /\ \A i \in DOMAIN celestial_objects : celestial_objects'[i] = celestial_objects[i]
        /\ request'.op = "GET /api/celestial-objects/id" =>
               IF DictHas(celestial_objects', request'.id)
               THEN /\ response'.status = 200
                    /\ response'.body[1]
                           = CelestialObjectToDict(
                                 DictGet(celestial_objects', Some(request'.id))[1])
               ELSE response'.status = 404
      ]_vars

\* The object posted first, with a null information and without
\* visibilityRating, is read back after two further creates.
C22_Witness ==
    /\ request.op = "GET /api/celestial-objects/id"
    /\ request.id = 1
    /\ Len(celestial_objects) = 3
    /\ response.status = 200
    /\ response.body[1].id = 1
    /\ response.body[1].information = None
    /\ response.body[1].visibilityRating = Some("Custom")
    /\ response.body[1].magnitude = Some("")

(* C24.  Every stored celestial object has a type, and it is one of        *)
(* celestial_object_types (planet, galaxy, nebula, star_cluster,           *)
(* double_star, moon, other).                                              *)
C24_StoredTypesInClosedSet ==
    \A i \in DOMAIN celestial_objects :
        /\ celestial_objects[i].type # None
        /\ celestial_objects[i].type[1]
               \in {"planet", "galaxy", "nebula", "star_cluster", "double_star", "moon", "other"}

(* C23.  For an id that is not a key of the store, get_celestial_object    *)
(* and get_observation return None; GET /api/celestial-objects/{id} of     *)
(* such an id, and PATCH and DELETE /api/observations/{id} of an id that   *)
(* is not stored (never assigned, or deleted), answer 404 and leave the    *)
(* store as it is.                                                         *)
C23_AbsentIdIsNotFound ==
    [][ /\ \A id \in ObjectIds :
               ~DictHas(celestial_objects, id) => get_celestial_object(Some(id)) = None
        /\ \A id \in ObservationIds :
               ~DictHas(observations, id) => get_observation(Some(id)) = None
        /\ ( /\ request'.op = "GET /api/celestial-objects/id"
             /\ ~DictHas(celestial_objects, request'.id) )
           => response'.status = 404 /\ UNCHANGED store
        /\ ( /\ request'.op \in {"PATCH /api/observations/id", "DELETE /api/observations/id"}
             /\ ~DictHas(observations, request'.id) )
           => response'.status = 404 /\ UNCHANGED store
      ]_vars

\* A PATCH of an observation that had been created and deleted was answered
\* 404, next to another stored observation.
C23_Witness ==
    /\ request.op = "PATCH /api/observations/id"
    /\ \E k \in DOMAIN issued["observation"] : issued["observation"][k] = request.id
    /\ ~DictHas(observations, request.id)
    /\ observations # <<>>
    /\ response.status = 404

(* Claims about GET /api/monthly-guide are stated on the answer to the     *)
(* last request: request holds the query parameters and the clock.         *)

IsGuideQuery == request.op = "GET /api/monthly-guide"

\* The guide is of the requested month (the current one without the parameter).
OfRequestedMonth(g) ==
    IF request.month \in {None, Some("")} THEN g.month = Some(request.now.month)
    ELSE g.month = request.month

\* The guide is of the requested year (the current one without the
\* parameter): the year parameter is the decimal form of the guide's year.
OfRequestedYear(g) ==
    IF request.year \in {None, Some(<<>>)} THEN g.year = Some(request.now.year)
    ELSE g.year # None /\ Pad4(g.year[1]) = request.year[1]

\* The guide is for the requested hemisphere (Northern without the
\* parameter) or for both.
ForRequestedHemisphere(g) ==
    \/ g.hemisphere = Some("both")
    \/ IF request.hemisphere \in {None, Some("")} THEN g.hemisphere = Some("Northern")
       ELSE g.hemisphere = request.hemisphere

\* The positions in the store of the guides that satisfy the request.
Satisfying ==
    {i \in DOMAIN monthly_guides :
        /\ OfRequestedMonth(monthly_guides[i])
        /\ OfRequestedYear(monthly_guides[i])
        /\ ForRequestedHemisphere(monthly_guides[i])}

\* The answer the claim describes.
BestMatchOr404 ==
    IF Satisfying = {} THEN response.status = 404
    ELSE /\ response.status = 200
         /\ response.body[1].id = monthly_guides[Least(Satisfying)].id
         /\ response.body[1].headline = monthly_guides[Least(Satisfying)].headline

(* C25.  GET /api/monthly-guide answers with the first guide, in the order *)
(* the guides were stored, whose month and year are the requested ones     *)
(* (the current month and year without the parameter) and whose hemisphere *)
(* is the requested one (Northern without the parameter) or "both", and    *)
(* with 404 exactly when no stored guide is such a guide.                  *)
C25_FirstMatchingGuideOr404 ==
    [][ (IsGuideQuery' /\ monthly_guides' = monthly_guides) => BestMatchOr404' ]_vars

\* C25 for the requests whose year parameter is absent, empty or a decimal
\* literal.
C25_HoldsForDecimalYears ==
    [][ ( /\ IsGuideQuery'
          /\ monthly_guides' = monthly_guides
          /\ request'.year \in {None, Some(<<>>)} \/ IsIntLiteral(request'.year[1]) )
        => BestMatchOr404' ]_vars

(* C26.  In every state reached through the HTTP surface every stored      *)
(* observation has user_id 1, whatever userId the body of its POST         *)
(* carried; GET /api/observations lists all stored observations, in store  *)
(* order; and no PATCH or DELETE is answered 403.                          *)
C26_AllObservationsOfDemoUser ==
    /\ \A i \in DOMAIN observations : observations[i].user_id = Some(1)
    /\ request.op = "POST /api/observations" /\ response.status = 201
       => response.body[1].userId = Some(1)
    /\ request.op = "GET /api/observations"
       => /\ response.status = 200
          /\ Len(response.body) = Len(observations)
          /\ \A i \in DOMAIN observations : response.body[i].id = observations[i].id
    /\ response.status # 403

\* A POST whose body names user 2 stored an observation of user 1.
C26_Witness ==
    /\ request.op = "POST /api/observations"
    /\ "userId" \in DOMAIN request.data
    /\ request.data.userId = Some(2)
    /\ response.status = 201
    /\ observations # <<>>
    /\ observations[Len(observations)].user_id = Some(1)
    /\ observations[Len(observations)].id = response.body[1].id

\* The ids of the observations created so far that are no longer stored.
DeletedObservationIds ==
    {issued["observation"][k] : k \in DOMAIN issued["observation"]}
        \ {observations[i].id : i \in DOMAIN observations}

(* C27.  A DELETE /api/observations/{id} answered 204 removes the stored    *)
(* observation with that id and nothing else: the other observations keep  *)
(* their values and their order, and the celestial objects, the other      *)
(* collections and all id counters are unchanged.  The id of a deleted     *)
(* observation is never stored again by any step, and a DELETE or a PATCH  *)
(* of it answers 404.                                                      *)
C27_DeleteFrame ==
    [][ /\ ( request'.op = "DELETE /api/observations/id" /\ response'.status = 204 )
           => /\ DictHas(observations, request'.id)
              /\ ~DictHas(observations', request'.id)
              /\ Len(observations') = Len(observations) - 1
              /\ \A i \in DOMAIN observations :
                     observations[i].id # request'.id
                     => \E j \in DOMAIN observations' :
                            /\ observations'[j] = observations[i]
                            /\ j = Cardinality({k \in 1..i : observations[k].id # request'.id})
              /\ UNCHANGED <<users, celestial_objects, monthly_guides, telescope_tips,
                             user_current_id, object_current_id, observation_current_id,
                             guide_current_id, tip_current_id>>
        /\ \A id \in DeletedObservationIds : ~DictHas(observations', id)
        /\ ( /\ request'.op \in {"DELETE /api/observations/id", "PATCH /api/observations/id"}
             /\ request'.id \in DeletedObservationIds )
           => response'.status = 404
      ]_vars

\* After observation 1 was deleted a POST stored a new observation under a
\* new id, next to which the deleted id is still absent, and a second
\* DELETE of it was answered 404.
C27_Witness ==
    /\ request.op = "DELETE /api/observations/id"
    /\ request.id = 1
    /\ response.status = 404
    /\ 1 \in DeletedObservationIds
    /\ observations # <<>>
    /\ \A i \in DOMAIN observations : observations[i].id > 1

\* The positions in effects of the requests of the last call to the NASA
\* search, to Wikipedia, and to the asset server (every other request).
SearchRequests == {i \in DOMAIN effects : effects[i].kind = "get" /\ effects[i].url = search_url}
WikipediaRequests ==
    {i \in DOMAIN effects : effects[i].kind = "get" /\ effects[i].url = wikipedia_endpoint}
ManifestRequests ==
    {i \in DOMAIN effects : effects[i].kind = "get"} \ (SearchRequests \cup WikipediaRequests)

\* The search is answered within the three attempts, with at least one item.
SearchReturnsItem ==
    /\ Len(upstream.search.failures) < 3
    /\ "collection" \in DOMAIN upstream.search.body
    /\ "items" \in DOMAIN upstream.search.body.collection
    /\ upstream.search.body.collection.items # <<>>

(* C28.  A call of search_celestial_object_image returns (every request    *)
(* it makes has a timeout) after at most 3 requests to the NASA search, at *)
(* most 3 to the asset server and at most 1 to Wikipedia.  A request to    *)
(* the asset server is made only when the search was answered with at      *)
(* least one item and after every search request; the request to Wikipedia *)
(* is made after every request to NASA.                                    *)
C28_BoundedRequestsInOrder ==
    IsResolve
    => /\ response.kind = "return"
       /\ \A i \in DOMAIN effects : effects[i].kind = "get" => effects[i].timeout # None
       /\ Cardinality(SearchRequests) <= 3
       /\ Cardinality(ManifestRequests) <= 3
       /\ Cardinality(WikipediaRequests) <= 1
       /\ ManifestRequests # {} => SearchReturnsItem
       /\ \A m \in ManifestRequests : \A s \in SearchRequests : s < m
       /\ \A w \in WikipediaRequests : \A n \in SearchRequests \cup ManifestRequests : n < w

\* The search failed once, every request for the manifest failed, and
\* Wikipedia was asked last: two, three and one requests.
C28_Witness ==
    /\ IsResolve
    /\ response.kind = "return"
    /\ Cardinality(SearchRequests) = 2
    /\ Cardinality(ManifestRequests) = 3
    /\ WikipediaRequests = {Len(effects)}
---------------------------------------------------------------------------
(* C29.  seed_database on a store without celestial objects creates the    *)
(* 10 objects with ids 1..10, 5 monthly guides and 5 telescope tips; on a  *)
(* store that holds a celestial object it changes nothing.  Once seeded,   *)
(* every id in the featured_objects of every stored guide is the id of a   *)
(* stored celestial object, whatever the handlers do afterwards.           *)

IsSeedCall == request'.op = "seed_database"

SeedsEmptyStore ==
    /\ Len(celestial_objects') = 10
    /\ \A i \in 1..10 : celestial_objects'[i].id = i
    /\ \A i \in 1..10 : celestial_objects'[i].name = seed_celestial_objects[i].name
    /\ Len(monthly_guides') = Len(monthly_guides) + 5
    /\ Len(telescope_tips') = Len(telescope_tips) + 5

FeaturedObjectsExist ==
    \A i \in DOMAIN monthly_guides :
        \A j \in DOMAIN monthly_guides[i].featured_objects :
            get_celestial_object(Some(monthly_guides[i].featured_objects[j])) # None

C29_SeedOnceAndGuidesResolve ==
    [][ /\ (IsSeedCall /\ celestial_objects = <<>>) => SeedsEmptyStore
        /\ (IsSeedCall /\ celestial_objects # <<>>) => UNCHANGED store
        /\ FeaturedObjectsExist' ]_vars

\* seed_database was called a second time, after a client had posted an
\* object and an observation of a seed object to the seeded store.
C29_Witness ==
    /\ request.op = "seed_database"
    /\ Len(celestial_objects) = 10 + MaxObjects
    /\ Len(monthly_guides) = 5
    /\ Len(telescope_tips) = 5
    /\ observations # <<>>
    /\ \E i \in DOMAIN monthly_guides : monthly_guides[i].featured_objects = <<5, 10>>
---------------------------------------------------------------------------
(* C30.  When two create calls of the same entity type interleave at       *)
(* statement granularity (increment the counter, read the counter into id, *)
(* insert into the dict), the two calls return distinct ids and the record *)
(* of each is in the store afterwards: neither overwrote the other.        *)

ReturnedRecord(t) == request.calls[t].returned[1]

C30_ConcurrentCreatesKeepBoth ==
    AllReturned =>
        /\ ReturnedRecord(1).id # ReturnedRecord(2).id
        /\ \A t \in Threads :
               DictGet(DictOf(request.kind), Some(ReturnedRecord(t).id))
                   = Some(ReturnedRecord(t))

\* The same two calls when each runs its three statements without the
\* other in between do keep both records.
RanOneAfterTheOther ==
    /\ AllReturned
    /\ ReturnedRecord(1).id # ReturnedRecord(2).id

===========================================================================
